---- MODULE Spec2Model ----
(***************************************************************************)
(* A model of kphue.py: the commit path of a luminous resource (a Light    *)
(* or a Group), Luminous.set with _form_attribute_data, _form_state_data   *)
(* and refresh, against a bridge that answers each PUT with success or an  *)
(* error, together with the conversion helpers those methods use.          *)
(*                                                                         *)
(* Representation.                                                         *)
(*   Python None is the empty sequence None; an optional value v that is   *)
(*   set is the one-element sequence <<v>>.  rgb is <<>> or <<r, g, b>>:   *)
(*   "if self.rgb" is false for both None and an empty list.               *)
(*   Floats are fixed point: xy components and the gamma-expanded colour   *)
(*   channels are in thousandths (FLOAT_ONE is 1.0), the transition time   *)
(*   is in tenths (TT_ONE is 1.0), so that int(round(t)) is a real step.   *)
(*   A dict is a function on the set of its keys.                          *)
(*                                                                         *)
(* Spec is the life of one resource under assignments, set and refresh.    *)
(* ResetSpec is the same life with reset in place of the colour commits.   *)
(* TimeSpec, MemberSpec and StashSpec are that life with fractional        *)
(* transition times, with changing lists of members, and over longer runs  *)
(* with the history of the brightness stash.                               *)
(* CacheSpec is the life of the Bridge's lists of Lights and Groups under  *)
(* refreshes, lookups and deletions, against a device whose resources come *)
(* and go; there an object is its index, its name and an identity (oid).   *)
(* GroupSpec is the creation and deletion of groups on those lists.        *)
(* PoolSpec joins every operation that adds to the lists; WriteSpec has    *)
(* the caller write to cached Lights between lookups.                      *)
(* CalcSpec applies the conversion helpers to inputs drawn at the start.   *)
(* RuleSpec is the life of a Rule and a Schedule of the Bridge, with the   *)
(* transport of every request.                                             *)
(***************************************************************************)
EXTENDS Integers, Sequences, FiniteSets, TLC

VARIABLES kind, dev, self, raw, last, writes, steps,
          hub, bridge, made, outcome,
          calc,
          rdev, rpool, rlast,
          stash

vars == <<kind, dev, self, raw, last, writes, steps, hub, bridge, made, outcome,
          calc, rdev, rpool, rlast, stash>>

(* The resource under set and refresh; the Bridge's caches of resources. *)
resource_vars == <<kind, dev, self, raw, last, writes>>

cache_vars == <<hub, bridge, made, outcome>>

(* A call of a conversion helper; the rules and schedules of a Bridge. *)
calc_vars == <<calc>>

rule_vars == <<rdev, rpool, rlast>>

(* The history of the brightness stash of the resource. *)
stash_vars == <<stash>>

(* What each specification leaves alone. *)
beside_resource == <<cache_vars, calc_vars, rule_vars, stash_vars>>

beside_cache == <<resource_vars, calc_vars, rule_vars, stash_vars>>

beside_calc == <<resource_vars, cache_vars, rule_vars, stash_vars>>

beside_rule == <<resource_vars, cache_vars, calc_vars, stash_vars>>

beside_stash == <<cache_vars, calc_vars, rule_vars>>

CacheIdle == hub = <<>> /\ bridge = <<>> /\ made = 0 /\ outcome = <<>>

CalcIdle == calc = <<>>

RuleIdle == rdev = <<>> /\ rpool = <<>> /\ rlast = <<>>

StashIdle == stash = <<>>

(***************************************************************************)
(* Module constants of kphue.py.                                           *)
(***************************************************************************)
KELVIN_MIN == 2000
KELVIN_MAX == 6500
MIREDS_MIN == 153
MIREDS_MAX == 500
HUE_MAX == 65535
SAT_MAX == 254
BRI_MAX == 254
RGB_MAX == 255

FLOAT_ONE == 1000
TT_ONE == 10

None == <<>>

(***************************************************************************)
(* Bound of the exploration: the number of operations in a run.            *)
(***************************************************************************)
MaxSteps == 3

(***************************************************************************)
(* Helpers on sequences and functions.                                     *)
(***************************************************************************)
Range(s) == {s[i] : i \in 1..Len(s)}

Min2(a, b) == IF a < b THEN a ELSE b

Max2(a, b) == IF a > b THEN a ELSE b

(* x / y rounded towards zero, for x >= 0 and y > 0: Python's int(x / y). *)
Trunc(x, y) == x \div y

(* x / y rounded up, for x >= 0 and y > 0. *)
Ceil(x, y) == (x + y - 1) \div y

(***************************************************************************)
(* constrain_value: swap the bounds when they are reversed, then clip.     *)
(***************************************************************************)
(* Variant: the bounds are taken as given. *)
constrain_value_unswapped(value, bound_min, bound_max) ==
    IF value < bound_min THEN bound_min
    ELSE IF value > bound_max THEN bound_max
    ELSE value

constrain_value(value, bound_min, bound_max) ==
    LET lo == IF bound_min > bound_max THEN bound_max ELSE bound_min
        hi == IF bound_min > bound_max THEN bound_min ELSE bound_max
    IN  IF value < lo THEN lo
        ELSE IF value > hi THEN hi
        ELSE value

validate_rgb(rgb) ==
    <<constrain_value(rgb[1], 0, RGB_MAX),
      constrain_value(rgb[2], 0, RGB_MAX),
      constrain_value(rgb[3], 0, RGB_MAX)>>

validate_xy(xy) ==
    <<constrain_value(xy[1], 0, FLOAT_ONE),
      constrain_value(xy[2], 0, FLOAT_ONE)>>

(***************************************************************************)
(* pow((v / 255.0 + 0.055) / 1.055, 2.4) in thousandths, rounded up, for   *)
(* the channel values 11..255 (entry v - 10 is the value for channel v).   *)
(***************************************************************************)
GammaTable ==
    << 4, 4, 5, 5, 5, 6, 6, 7, 7, 7, 8, 9, 9, 10, 10, 11, 11, 12, 13, 13,
       14, 15, 16, 16, 17, 18, 19, 20, 21, 22, 23, 24, 25, 26, 27, 28, 29, 30, 31, 32,
       34, 35, 36, 37, 39, 40, 41, 43, 44, 46, 47, 49, 50, 52, 53, 55, 57, 58, 60, 62,
       64, 65, 67, 69, 71, 73, 75, 77, 79, 81, 83, 85, 87, 89, 91, 94, 96, 98, 100, 103,
       105, 108, 110, 112, 115, 117, 120, 123, 125, 128, 131, 133, 136, 139, 142, 145, 148, 150, 153, 156,
       159, 163, 166, 169, 172, 175, 178, 182, 185, 188, 192, 195, 199, 202, 206, 209, 213, 216, 220, 224,
       227, 231, 235, 239, 243, 247, 251, 255, 259, 263, 267, 271, 275, 279, 284, 288, 292, 297, 301, 305,
       310, 314, 319, 324, 328, 333, 338, 342, 347, 352, 357, 362, 367, 372, 377, 382, 387, 392, 397, 402,
       408, 413, 418, 424, 429, 435, 440, 446, 451, 457, 463, 468, 474, 480, 486, 492, 497, 503, 509, 515,
       521, 528, 534, 540, 546, 553, 559, 565, 572, 578, 585, 591, 598, 604, 611, 618, 624, 631, 638, 645,
       652, 659, 666, 673, 680, 687, 694, 702, 709, 716, 724, 731, 738, 746, 753, 761, 769, 776, 784, 792,
       800, 807, 815, 823, 831, 839, 847, 855, 864, 872, 880, 888, 897, 905, 914, 922, 931, 939, 948, 956,
       965, 974, 983, 992, 1000 >>

(***************************************************************************)
(* make_vivid, the gamma expansion inside rgb_to_xy, in thousandths and    *)
(* rounded up (so that, as in the code, only channel 0 expands to 0).      *)
(* v / 255.0 > 0.04045 exactly when v >= 11.                               *)
(***************************************************************************)
(* Variant: a channel never expands to 0. *)
make_vivid_offset(value) ==
    IF value * 100000 > 4045 * 255
    THEN GammaTable[value - 10]
    ELSE Ceil(value * 100000, 255 * 1292) + 1

make_vivid(value) ==
    IF value * 100000 > 4045 * 255
    THEN GammaTable[value - 10]
    ELSE Ceil(value * 100000, 255 * 1292)

(***************************************************************************)
(* rgb_to_xy.  The matrix coefficients are in thousandths, so the sums are *)
(* in millionths and the quotients in thousandths.                         *)
(***************************************************************************)
rgb_to_xy(rgb) ==
    LET chromaticity(x_val, y_val, sum) ==
            IF sum # 0
            THEN validate_xy(<<Trunc(x_val * FLOAT_ONE, sum),
                               Trunc(y_val * FLOAT_ONE, sum)>>)
            ELSE validate_xy(<<0, 0>>)
        wide_gamut(x_val, y_val, z_val) ==
            chromaticity(x_val, y_val, x_val + y_val + z_val)
        expanded(fin) ==
            wide_gamut(fin[1] * 650 + fin[2] * 103 + fin[3] * 197,
                       fin[1] * 234 + fin[2] * 743 + fin[3] * 23,
                       fin[1] * 0 + fin[2] * 53 + fin[3] * 1036)
        validated(v) == expanded([i \in 1..3 |-> make_vivid(v[i])])
    IN  validated(validate_rgb(rgb))

(***************************************************************************)
(* rgb_to_hsb.  The three channels are divided by 255.0 in the code; the   *)
(* quotients below are the same ratios written over the integers, and      *)
(* int() truncates.                                                        *)
(***************************************************************************)
rgb_to_hsb(rgb) ==
    LET convert(v, rgb_min, rgb_max) ==
            LET span == rgb_max - rgb_min
                delta == IF v[1] = rgb_min THEN v[2] - v[3]
                         ELSE IF v[3] = rgb_min THEN v[1] - v[2]
                         ELSE v[3] - v[1]
                huey == IF v[1] = rgb_min THEN 3
                        ELSE IF v[3] = rgb_min THEN 1
                        ELSE 5
            IN  IF rgb_min = rgb_max
                THEN <<0, 0, Trunc(rgb_min * BRI_MAX, RGB_MAX)>>
                ELSE <<Trunc(HUE_MAX * (huey * span - delta), 6 * span),
                       Trunc(span * SAT_MAX, rgb_max),
                       Trunc(rgb_max * BRI_MAX, RGB_MAX)>>
        validated(v) == convert(v, Min2(v[1], Min2(v[2], v[3])),
                                   Max2(v[1], Max2(v[2], v[3])))
    IN  validated(validate_rgb(rgb))

(***************************************************************************)
(* round(x / y) for x >= 0 and y > 0.  A quotient half way between two     *)
(* integers goes up under Python 2 and to the even one under Python 3; the *)
(* module runs under both (PY3K).                                          *)
(***************************************************************************)
(* Variant: the quotient is cut off. *)
round_cut(x, y, py3k) == x \div y

round(x, y, py3k) ==
    IF 2 * (x % y) < y THEN x \div y
    ELSE IF 2 * (x % y) > y THEN x \div y + 1
    ELSE IF py3k /\ (x \div y) % 2 = 0 THEN x \div y
    ELSE x \div y + 1

(* kelvin_to_mireds, for a whole number of kelvins. *)
kelvin_to_mireds(kelvin, py3k) ==
    round(1000000, constrain_value(kelvin, KELVIN_MIN, KELVIN_MAX), py3k)

(***************************************************************************)
(* hue_encode / hue_decode on the optional string fields (effect, alert).  *)
(* Booleans and numbers pass through both unchanged.                       *)
(***************************************************************************)
hue_encode(value) == IF value = None THEN "none" ELSE value[1]

hue_decode(value) == IF value = "none" THEN None ELSE <<value>>

(***************************************************************************)
(* The resource.  A Light's snapshot keeps its state object under "state", *)
(* a Group's under "action" (Luminous.__init__); hasattr is membership in  *)
(* the domain of the record of instance attributes.                        *)
(***************************************************************************)
_attr_key(res_type) == IF res_type = "group" THEN "action" ELSE "state"

hasattr(obj, attr) == attr \in DOMAIN obj

(* Bridge.lights: the cached Light ids, in cache order. *)
LightPool == <<1, 2>>

(***************************************************************************)
(* _get_from_pool restricted to integer ids, as Group.refresh calls it     *)
(* through get_lights: the pool's entries whose id is selected, in pool    *)
(* order.                                                                  *)
(***************************************************************************)
_get_from_pool(pool, ids) ==
    SelectSeq(pool, LAMBDA index : index \in Range(ids))

(***************************************************************************)
(* refresh: HueResource.refresh, Luminous.refresh and the Light / Group    *)
(* extension.  state is the object the GET returns; the result is the new  *)
(* attribute record and the snapshot kept in _state (xy written back       *)
(* validated).  transitiontime, _bri and scene are not touched.            *)
(***************************************************************************)
(* Variant: the snapshot is fetched but the attributes are not updated. *)
refresh_snapshot_only(obj, state, res_type) ==
    [self |-> obj,
     _state |-> [state EXCEPT ![_attr_key(res_type)].xy =
                                  validate_xy(state[_attr_key(res_type)].xy)]]

(* Variant: the refresh forgets the transition time. *)
refresh_clearing_time(obj, state, res_type) ==
    LET read(key, xy) ==
            LET lum == [obj EXCEPT !.name = state.name,
                                   !.on = state[key].on,
                                   !.effect = hue_decode(state[key].effect),
                                   !.rgb = None,
                                   !.ct = state[key].ct,
                                   !.hue = state[key].hue,
                                   !.sat = state[key].sat,
                                   !.bri = state[key].bri,
                                   !.xy = xy,
                                   !.transitiontime = None]
            IN  [self |-> IF res_type = "light"
                          THEN [lum EXCEPT !.alert = hue_decode(state[key].alert),
                                           !.color_mode = state[key].colormode,
                                           !.is_reachable = state[key].reachable]
                          ELSE [lum EXCEPT !.lights = _get_from_pool(LightPool,
                                                                     state.lights)],
                 _state |-> [state EXCEPT ![key].xy = xy]]
    IN  read(_attr_key(res_type), validate_xy(state[_attr_key(res_type)].xy))

refresh(obj, state, res_type) ==
    LET read(key, xy) ==
            LET lum == [obj EXCEPT !.name = state.name,
                                   !.on = state[key].on,
                                   !.effect = hue_decode(state[key].effect),
                                   !.rgb = None,
                                   !.ct = state[key].ct,
                                   !.hue = state[key].hue,
                                   !.sat = state[key].sat,
                                   !.bri = state[key].bri,
                                   !.xy = xy]
            IN  [self |-> IF res_type = "light"
                          THEN [lum EXCEPT !.alert = hue_decode(state[key].alert),
                                           !.color_mode = state[key].colormode,
                                           !.is_reachable = state[key].reachable]
                          ELSE [lum EXCEPT !.lights = _get_from_pool(LightPool,
                                                                     state.lights)],
                 _state |-> [state EXCEPT ![key].xy = xy]]
    IN  read(_attr_key(res_type), validate_xy(state[_attr_key(res_type)].xy))

(***************************************************************************)
(* Variant: the members are compared as sets. *)
lights_changed_as_sets(lights, members) == Range(lights) # Range(members)

(***************************************************************************)
(* The loop of _form_attribute_data over self.lights: remove each member   *)
(* from the snapshot's id list; a member that is not there makes the       *)
(* result True.  The result is truthy when it is True or a non-empty list. *)
(***************************************************************************)
RemoveFirst(seq, x) ==
    LET i == CHOOSE j \in 1..Len(seq) : seq[j] = x /\ \A m \in 1..(j - 1) : seq[m] # x
    IN  SubSeq(seq, 1, i - 1) \o SubSeq(seq, i + 1, Len(seq))

RECURSIVE lights_changed(_, _)
lights_changed(lights, members) ==
    IF members = <<>> THEN lights # <<>>
    ELSE IF Head(members) \notin Range(lights) THEN TRUE
    ELSE lights_changed(RemoveFirst(lights, Head(members)), Tail(members))

(***************************************************************************)
(* _form_attribute_data: the attribute payload and the object afterwards   *)
(* (a pending scene is cleared when it is queued).                         *)
(***************************************************************************)
(* Variant: the scene stays pending after it is put into the payload. *)
_form_attribute_data_keeping_scene(obj, _state) ==
    LET name == obj.name # _state.name
        lights == "lights" \in DOMAIN _state /\ lights_changed(_state.lights, obj.lights)
        scene == hasattr(obj, "scene") /\ obj.scene # None
        keys == (IF name THEN {"name"} ELSE {})
                \cup (IF lights THEN {"lights"} ELSE {})
                \cup (IF scene THEN {"scene"} ELSE {})
    IN  [attrs |-> [k \in keys |-> CASE k = "name" -> obj.name
                                     [] k = "lights" -> obj.lights
                                     [] k = "scene" -> obj.scene[1]],
         self |-> obj]

_form_attribute_data(obj, _state) ==
    LET name == obj.name # _state.name
        lights == "lights" \in DOMAIN _state /\ lights_changed(_state.lights, obj.lights)
        scene == hasattr(obj, "scene") /\ obj.scene # None
        keys == (IF name THEN {"name"} ELSE {})
                \cup (IF lights THEN {"lights"} ELSE {})
                \cup (IF scene THEN {"scene"} ELSE {})
    IN  [attrs |-> [k \in keys |-> CASE k = "name" -> obj.name
                                     [] k = "lights" -> obj.lights
                                     [] k = "scene" -> obj.scene[1]],
         self |-> IF scene THEN [obj EXCEPT !.scene = None] ELSE obj]

(***************************************************************************)
(* The value _form_state_data compares and sends for one key of the state  *)
(* object: hue_encode of the attribute of that name.                       *)
(***************************************************************************)
set_value(obj, state) ==
    IF state \in {"effect", "alert"} THEN hue_encode(obj[state]) ELSE obj[state]

(* int(round(t)) for a transition time t >= 0 given in tenths that is not   *)
(* halfway between two integers.                                           *)
round_time(t) == ((t + TT_ONE \div 2) \div TT_ONE) * TT_ONE

(***************************************************************************)
(* _form_state_data, first part: resolve rgb.  Black turns the resource    *)
(* off; any other triple becomes hue/sat/bri for a Light in colour mode    *)
(* "hs" and xy otherwise; without rgb, xy is validated.                    *)
(***************************************************************************)
(* Variant: rgb always resolved to xy, whatever the colour mode. *)
resolve_always_xy(obj) ==
    IF obj.rgb # <<>>
    THEN IF obj.rgb = <<0, 0, 0>>
         THEN [obj EXCEPT !.on = FALSE, !.rgb = None]
         ELSE [obj EXCEPT !.xy = rgb_to_xy(obj.rgb), !.rgb = None]
    ELSE [obj EXCEPT !.xy = validate_xy(obj.xy)]

(* Variant: in colour mode hs the brightness of the caller is kept. *)
resolve_keeping_brightness(obj) ==
    IF obj.rgb # <<>>
    THEN IF obj.rgb = <<0, 0, 0>>
         THEN [obj EXCEPT !.on = FALSE, !.rgb = None]
         ELSE IF hasattr(obj, "color_mode") /\ obj.color_mode = "hs"
         THEN LET hsb == rgb_to_hsb(obj.rgb)
              IN  [obj EXCEPT !.hue = hsb[1], !.sat = hsb[2], !.rgb = None]
         ELSE [obj EXCEPT !.xy = rgb_to_xy(obj.rgb), !.rgb = None]
    ELSE [obj EXCEPT !.xy = validate_xy(obj.xy)]

resolve_colour(obj) ==
    IF obj.rgb # <<>>
    THEN IF obj.rgb = <<0, 0, 0>>
         THEN [obj EXCEPT !.on = FALSE, !.rgb = None]
         ELSE IF hasattr(obj, "color_mode") /\ obj.color_mode = "hs"
         THEN LET hsb == rgb_to_hsb(obj.rgb)
              IN  [obj EXCEPT !.hue = hsb[1], !.sat = hsb[2],
                              !.bri = hsb[3], !.rgb = None]
         ELSE [obj EXCEPT !.xy = rgb_to_xy(obj.rgb), !.rgb = None]
    ELSE [obj EXCEPT !.xy = validate_xy(obj.xy)]

(***************************************************************************)
(* _form_state_data, second part: conform the attributes to valid values   *)
(* (clamps, rounding of the transition time, effect).                      *)
(***************************************************************************)
conform(obj) ==
    [obj EXCEPT
        !.ct = constrain_value(obj.ct, MIREDS_MIN, MIREDS_MAX),
        !.hue = constrain_value(obj.hue, 0, HUE_MAX),
        !.sat = constrain_value(obj.sat, 0, SAT_MAX),
        !.bri = constrain_value(obj.bri, 0, BRI_MAX),
        !.transitiontime = IF obj.transitiontime # None
                           THEN <<round_time(obj.transitiontime[1])>>
                           ELSE None,
        !.effect = IF obj.effect \notin {None, <<"colorloop">>}
                   THEN None ELSE obj.effect]

(***************************************************************************)
(* _form_state_data, third part: the brightness workaround for a power     *)
(* change together with a transition time.  on_state is the snapshot's on. *)
(* "if self._bri" is false for None and for 0.                             *)
(***************************************************************************)
(* Variant: the turn-off stashes the brightness but sends it unchanged. *)
workaround_same_brightness(obj, on_state) ==
    IF on_state # obj.on /\ obj.transitiontime # None
    THEN IF obj.on
         THEN IF obj._bri # None /\ obj._bri # <<0>>
              THEN [obj EXCEPT !.bri = obj._bri[1], !._bri = None]
              ELSE obj
         ELSE [obj EXCEPT !._bri = <<obj.bri>>]
    ELSE obj

(* Variant: the workaround on every power change, timed or not. *)
workaround_untimed(obj, on_state) ==
    IF on_state # obj.on
    THEN IF obj.on
         THEN IF obj._bri # None /\ obj._bri # <<0>>
              THEN [obj EXCEPT !.bri = obj._bri[1], !._bri = None]
              ELSE obj
         ELSE [obj EXCEPT !._bri = <<obj.bri>>,
                          !.bri = IF obj.bri > 0 THEN obj.bri - 1 ELSE 1]
    ELSE obj

workaround(obj, on_state) ==
    IF on_state # obj.on /\ obj.transitiontime # None
    THEN IF obj.on
         THEN IF obj._bri # None /\ obj._bri # <<0>>
              THEN [obj EXCEPT !.bri = obj._bri[1], !._bri = None]
              ELSE obj
         ELSE [obj EXCEPT !._bri = <<obj.bri>>,
                          !.bri = IF obj.bri > 0 THEN obj.bri - 1 ELSE 1]
    ELSE obj

(***************************************************************************)
(* _form_state_data, fourth part: the payload.  A key of the snapshot's    *)
(* state object that is an attribute is sent when its encoded value        *)
(* differs from the snapshot's; transitiontime joins a non-empty payload;  *)
(* on = True is added to a non-empty payload without on.                   *)
(***************************************************************************)
(* Variant: every known key is sent, changed or not. *)
changed_states_undiffed(obj, state_obj) ==
    {state \in DOMAIN state_obj : hasattr(obj, state)}

changed_states(obj, state_obj) ==
    {state \in DOMAIN state_obj :
        hasattr(obj, state) /\ state_obj[state] # set_value(obj, state)}

(* Variant: transitiontime is sent whenever it is set. *)
timed_whenever_set(obj, changed) ==
    IF obj.transitiontime # None THEN {"transitiontime"} ELSE {}

timed(obj, changed) ==
    IF changed # {} /\ obj.transitiontime # None THEN {"transitiontime"} ELSE {}

(* Variants: on is never added; on is added to an empty payload too. *)
forced_on_never(changed) == {}

forced_on_always(changed) == IF "on" \notin changed THEN {"on"} ELSE {}

forced_on(changed) ==
    IF "on" \notin changed /\ changed # {} THEN {"on"} ELSE {}

payload(obj, state_obj) ==
    LET changed == changed_states(obj, state_obj)
        keys == changed \cup timed(obj, changed) \cup forced_on(changed)
    IN  [state \in keys |->
            IF state = "transitiontime" THEN obj.transitiontime[1] \div TT_ONE
            ELSE IF state = "on" /\ "on" \notin changed THEN TRUE
            ELSE set_value(obj, state)]

_form_state_data(obj, _state, res_type) ==
    LET form(new, state_obj) == [states |-> payload(new, state_obj), self |-> new]
        against(state_obj) ==
            form(workaround(conform(resolve_colour(obj)), state_obj.on), state_obj)
    IN  against(_state[_attr_key(res_type)])

(***************************************************************************)
(* The bridge.  A PUT either succeeds, and then every item of its body is  *)
(* applied, or is answered with an error entry and changes nothing.  A     *)
(* light's colormode follows the colour keys written (xy > ct > hs); a     *)
(* group keeps the list of members it is sent.                             *)
(***************************************************************************)
bridge_put_attributes(device, attrs) ==
    LET named == IF "name" \in DOMAIN attrs
                 THEN [device EXCEPT !.name = attrs.name] ELSE device
    IN  IF "lights" \in DOMAIN attrs
        THEN [named EXCEPT !.lights = attrs.lights]
        ELSE named

bridge_put_state(device, states, res_type) ==
    LET key == _attr_key(res_type)
        old == device[key]
        mode == IF "xy" \in DOMAIN states THEN "xy"
                ELSE IF "ct" \in DOMAIN states THEN "ct"
                ELSE IF {"hue", "sat"} \cap DOMAIN states # {} THEN "hs"
                ELSE old.colormode
        new == [state \in DOMAIN old |->
                   IF state \in DOMAIN states THEN states[state]
                   ELSE IF state = "colormode" THEN mode
                   ELSE old[state]]
    IN  [device EXCEPT ![key] = new]

(***************************************************************************)
(* Luminous.set.  parameter "" stands for a call without parameter ("if    *)
(* parameter" is false).  attr_answer and state_answer say how the         *)
(* attribute PUT and the state PUT end: the bridge answers with success    *)
(* entries, it answers with an error entry, or the connection fails and    *)
(* api_request raises ("timeout": the request never reaches the bridge and *)
(* the exception leaves set at once, before the wait and the refresh).     *)
(* issued is the sequence of requests and waits of one call, in order.     *)
(* The result carries the object, the snapshot and the device afterwards,  *)
(* the two payloads, the requests in the order they were issued, the       *)
(* object as desired (after the override) and as formed (after             *)
(* _form_state_data, before the final refresh), the answers to the PUTs    *)
(* it made (responses), and the return value: return_status is what        *)
(* Luminous.set returns ("Raised" for an exception), status what the       *)
(* method that was called returns.                                         *)
(* In Luminous_set the steps of the method are chained last to first:      *)
(* overridden, attributes_formed, attribute_phase, state_formed,           *)
(* state_phase, refreshed, returned; each hands on the values computed so  *)
(* far (first and second are the results of the two _form_ methods).       *)
(***************************************************************************)
(* Variant: the settling delay after every attribute phase, sent or not. *)
issued_wait_always(send_attrs, send_states) ==
    (IF send_attrs THEN <<"PUT attributes">> ELSE <<>>)
    \o <<"wait">>
    \o (IF send_states THEN <<"PUT state">> ELSE <<>>)
    \o <<"GET">>

issued(send_attrs, send_states) ==
    (IF send_attrs THEN <<"PUT attributes", "wait">> ELSE <<>>)
    \o (IF send_states THEN <<"PUT state">> ELSE <<>>)
    \o <<"GET">>

Answers == {"success", "error", "timeout"}

(***************************************************************************)
(* "if return_status and data": a payload goes out when it is not empty    *)
(* and no request of the call has reported an error so far.                *)
(***************************************************************************)
(* Variant: a payload goes out whenever it is not empty. *)
transmits_whatever(return_status, data) == DOMAIN data # {}

transmits(return_status, data) == return_status /\ DOMAIN data # {}

(***************************************************************************)
(* The loop over the entries of a response: an error entry is logged and   *)
(* makes return_status False.                                              *)
(***************************************************************************)
(* Variant: error entries are logged only. *)
reported_never(return_status, answer) == return_status

reported(return_status, answer) == return_status /\ answer = "success"

(* The requests of a call that an exception ended, at the PUT that raised. *)
interrupted(send_attrs, in_state_phase) ==
    IF in_state_phase
    THEN (IF send_attrs THEN <<"PUT attributes", "wait">> ELSE <<>>)
         \o <<"PUT state">>
    ELSE <<"PUT attributes">>

(* Variant: a parameter that names no attribute is taken for rgb. *)
override_unknown_as_rgb(obj, parameter, value) ==
    IF parameter # ""
    THEN IF hasattr(obj, parameter)
         THEN [obj EXCEPT ![parameter] = value]
         ELSE [obj EXCEPT !.rgb = value]
    ELSE obj

(* The setattr of the override, for a parameter that names an attribute. *)
override(obj, parameter, value) ==
    IF parameter # "" /\ hasattr(obj, parameter)
    THEN [obj EXCEPT ![parameter] = value]
    ELSE obj

Luminous_set(obj, _state, device, res_type, parameter, value, attr_answer, state_answer) ==
    LET returned(desired, first, second, send_attrs, send_states, status2,
                 device2, fresh) ==
            [self |-> fresh.self,
             _state |-> fresh._state,
             device |-> device2,
             attrs |-> first.attrs,
             states |-> second.states,
             requests |-> issued(send_attrs, send_states),
             responses |-> (IF send_attrs THEN <<attr_answer>> ELSE <<>>)
                           \o (IF send_states THEN <<state_answer>> ELSE <<>>),
             desired |-> desired,
             formed |-> second.self,
             return_status |-> IF status2 THEN "True" ELSE "False",
             status |-> IF status2 THEN "True" ELSE "False"]
        refreshed(desired, first, second, send_attrs, send_states, status2,
                  device2) ==
            returned(desired, first, second, send_attrs, send_states, status2,
                     device2, refresh(second.self, device2, res_type))
        state_phase(desired, first, second, send_attrs, send_states, status1,
                    device1) ==
            IF send_states /\ state_answer = "timeout"
            THEN [self |-> second.self, _state |-> _state, device |-> device1,
                  attrs |-> first.attrs, states |-> second.states,
                  requests |-> interrupted(send_attrs, TRUE),
                  responses |-> (IF send_attrs THEN <<attr_answer>> ELSE <<>>)
                                \o <<state_answer>>,
                  desired |-> desired, formed |-> second.self,
                  return_status |-> "Raised", status |-> "Raised"]
            ELSE refreshed(desired, first, second, send_attrs, send_states,
                           IF send_states
                           THEN reported(status1, state_answer)
                           ELSE status1,
                           IF send_states /\ state_answer = "success"
                           THEN bridge_put_state(device1, second.states, res_type)
                           ELSE device1)
        state_formed(desired, first, second, send_attrs, status1, device1) ==
            state_phase(desired, first, second, send_attrs,
                        transmits(status1, second.states), status1, device1)
        attribute_phase(desired, first, send_attrs) ==
            IF send_attrs /\ attr_answer = "timeout"
            THEN [self |-> first.self, _state |-> _state, device |-> device,
                  attrs |-> first.attrs, states |-> <<>>,
                  requests |-> interrupted(send_attrs, FALSE),
                  responses |-> <<attr_answer>>,
                  desired |-> desired, formed |-> first.self,
                  return_status |-> "Raised", status |-> "Raised"]
            ELSE state_formed(desired, first,
                              _form_state_data(first.self, _state, res_type),
                              send_attrs,
                              IF send_attrs
                              THEN reported(TRUE, attr_answer)
                              ELSE TRUE,
                              IF send_attrs /\ attr_answer = "success"
                              THEN bridge_put_attributes(device, first.attrs)
                              ELSE device)
        attributes_formed(desired, first) ==
            attribute_phase(desired, first, transmits(TRUE, first.attrs))
        overridden(desired) ==
            attributes_formed(desired, _form_attribute_data(desired, _state))
    IN  overridden(override(obj, parameter, value))

(***************************************************************************)
(* Light.set: refuse when the light is not reachable, else Luminous.set,   *)
(* whose result is not returned.                                           *)
(***************************************************************************)
(* Variant: an unreachable light is committed like any other. *)
Light_set_unrefused(obj, _state, device, parameter, value, attr_answer, state_answer) ==
    LET dropped(done) ==
            IF done.status = "Raised" THEN done ELSE [done EXCEPT !.status = "None"]
    IN  dropped(Luminous_set(obj, _state, device, "light", parameter, value,
                             attr_answer, state_answer))

Light_set(obj, _state, device, parameter, value, attr_answer, state_answer) ==
    LET dropped(done) ==
            IF done.status = "Raised" THEN done ELSE [done EXCEPT !.status = "None"]
    IN  IF ~obj.is_reachable
        THEN [self |-> obj, _state |-> _state, device |-> device,
              attrs |-> <<>>, states |-> <<>>, requests |-> <<>>,
              responses |-> <<>>, desired |-> obj, formed |-> obj,
              return_status |-> "NotCalled", status |-> "False"]
        ELSE dropped(Luminous_set(obj, _state, device, "light", parameter, value,
                                  attr_answer, state_answer))

(***************************************************************************)
(* The bridge's resources when the Bridge object is built, and the values  *)
(* a caller assigns.  Device values are inside the ranges the API gives.   *)
(***************************************************************************)
White == rgb_to_xy(<<255, 255, 255>>)

InitDevices(res_type) ==
    IF res_type = "light"
    THEN {[name |-> "Kitchen",
           state |-> [on |-> o, bri |-> b, hue |-> 0, sat |-> 0, effect |-> "none",
                      xy |-> White, ct |-> MIREDS_MIN, alert |-> "none",
                      colormode |-> m, reachable |-> TRUE]] :
            o \in BOOLEAN, b \in {0, 100}, m \in {"xy", "hs"}}
    ELSE {[name |-> "Kitchen", lights |-> <<1>>,
           action |-> [on |-> o, bri |-> b, hue |-> 0, sat |-> 0, effect |-> "none",
                       xy |-> White, ct |-> MIREDS_MIN]] :
            o \in BOOLEAN, b \in {0, 100}}

Blank(res_type) ==
    IF res_type = "light"
    THEN [name |-> "", on |-> FALSE, effect |-> None, xy |-> <<0, 0>>, ct |-> 0,
          hue |-> 0, sat |-> 0, bri |-> 0, _bri |-> None, rgb |-> None,
          transitiontime |-> None, alert |-> None, color_mode |-> "",
          is_reachable |-> FALSE]
    ELSE [name |-> "", on |-> FALSE, effect |-> None, xy |-> <<0, 0>>, ct |-> 0,
          hue |-> 0, sat |-> 0, bri |-> 0, _bri |-> None, rgb |-> None,
          transitiontime |-> None, lights |-> <<>>, scene |-> None]

RgbValues == {<<0, 0, 0>>, <<300, 128, 5>>}

Assignments ==
    {<<"bri", 200>>, <<"bri", 300>>,
     <<"hue", 70000>>, <<"ct", 100>>,
     <<"xy", <<1500, -200>>>>,
     <<"effect", <<"colorloop">>>>,
     <<"transitiontime", <<100>>>>,
     <<"name", "Den">>,
     <<"lights", <<1, 2>>>>,
     <<"scene", <<"sunset">>>>}
    \cup {<<"rgb", v>> : v \in RgbValues}

(***************************************************************************)
(* last describes the call of set that has just returned: its parameter,   *)
(* the object and the snapshot before the call, the number of assignments  *)
(* since the refresh before it, the object as desired and as formed, the   *)
(* payloads, the requests and the return value.  Any other operation       *)
(* resets it to NoCommit.                                                  *)
(***************************************************************************)
NoCommit ==
    [op |-> "none", parameter |-> "", dirty |-> 0, before |-> <<>>, snapshot |-> <<>>,
     desired |-> <<>>, formed |-> <<>>, attrs |-> <<>>, states |-> <<>>,
     requests |-> <<>>, responses |-> <<>>, return_status |-> "NotCalled",
     status |-> "None"]

ResourceIdle ==
    /\ kind = "none"
    /\ dev = <<>>
    /\ self = <<>>
    /\ raw = <<>>
    /\ last = NoCommit
    /\ writes = 0

Init ==
    /\ kind \in {"light", "group"}
    /\ dev \in InitDevices(kind)
    /\ self = refresh(Blank(kind), dev, kind).self
    /\ raw = refresh(Blank(kind), dev, kind)._state
    /\ last = NoCommit
    /\ writes = 0
    /\ steps = 0
    /\ CacheIdle
    /\ CalcIdle
    /\ RuleIdle
    /\ StashIdle

(* The caller assigns an attribute of the resource. *)
Assign(attr, value) ==
    /\ steps < MaxSteps
    /\ hasattr(self, attr)
    /\ self' = [self EXCEPT ![attr] = value]
    /\ writes' = writes + 1
    /\ last' = NoCommit
    /\ steps' = steps + 1
    /\ UNCHANGED <<kind, dev, raw>>
    /\ UNCHANGED beside_resource

(***************************************************************************)
(* set(parameter, value) on the resource: Light.set for a Light,           *)
(* Luminous.set for a Group.  An answer is drawn for every PUT the call    *)
(* makes: the PUTs are read off the call in which both succeed, the        *)
(* attribute PUT may then end in an error or a failure instead (no state   *)
(* PUT follows either), and so may the state PUT.                          *)
(***************************************************************************)
resource_set(parameter, value, attr_answer, state_answer) ==
    IF kind = "light"
    THEN Light_set(self, raw, dev, parameter, value, attr_answer, state_answer)
    ELSE Luminous_set(self, raw, dev, kind, parameter, value,
                      attr_answer, state_answer)

Outcomes(parameter, value) ==
    LET answered(smooth) ==
            {resource_set(parameter, value, a, "success") :
                a \in IF "PUT attributes" \in Range(smooth.requests)
                      THEN {"error", "timeout"} ELSE {}}
            \cup {resource_set(parameter, value, "success", b) :
                    b \in IF "PUT state" \in Range(smooth.requests)
                          THEN Answers ELSE {"success"}}
    IN  answered(resource_set(parameter, value, "success", "success"))

Set(parameter, value) ==
    /\ steps < MaxSteps
    /\ \E done \in Outcomes(parameter, value) :
          /\ self' = done.self
          /\ raw' = done._state
          /\ dev' = done.device
          /\ last' = [op |-> "set", parameter |-> parameter, dirty |-> writes,
                      before |-> self, snapshot |-> raw,
                      desired |-> done.desired, formed |-> done.formed,
                      attrs |-> done.attrs, states |-> done.states,
                      requests |-> done.requests,
                      responses |-> done.responses,
                      return_status |-> done.return_status,
                      status |-> done.status]
          /\ writes' = IF done.requests = <<>> THEN writes
                       ELSE IF done.status = "Raised" THEN writes + 1
                       ELSE 0
    /\ steps' = steps + 1
    /\ UNCHANGED kind
    /\ UNCHANGED beside_resource

(***************************************************************************)
(* reset(): the attributes of white light, then turn_on(), which is        *)
(* set('on', True).  Group.reset drops the pending scene first.            *)
(***************************************************************************)
(* Variant: the transition time is kept. *)
reset_keeping_time(obj) ==
    LET white(hsb) ==
            [obj EXCEPT !.effect = None, !.rgb = None,
                        !.ct = MIREDS_MIN, !.xy = rgb_to_xy(<<255, 255, 255>>),
                        !.hue = hsb[1], !.sat = hsb[2], !.bri = BRI_MAX]
        cleared(whitened) ==
            IF hasattr(whitened, "scene") THEN [whitened EXCEPT !.scene = None]
            ELSE whitened
    IN  cleared(white(rgb_to_hsb(<<255, 255, 255>>)))

reset(obj) ==
    LET white(hsb) ==
            [obj EXCEPT !.transitiontime = None, !.effect = None, !.rgb = None,
                        !.ct = MIREDS_MIN, !.xy = rgb_to_xy(<<255, 255, 255>>),
                        !.hue = hsb[1], !.sat = hsb[2], !.bri = BRI_MAX]
        cleared(whitened) ==
            IF hasattr(whitened, "scene") THEN [whitened EXCEPT !.scene = None]
            ELSE whitened
    IN  cleared(white(rgb_to_hsb(<<255, 255, 255>>)))

resource_reset(attr_answer, state_answer) ==
    IF kind = "light"
    THEN Light_set(reset(self), raw, dev, "on", TRUE, attr_answer, state_answer)
    ELSE Luminous_set(reset(self), raw, dev, kind, "on", TRUE,
                      attr_answer, state_answer)

ResetOutcomes ==
    LET answered(smooth) ==
            {resource_reset(a, "success") :
                a \in IF "PUT attributes" \in Range(smooth.requests)
                      THEN {"error", "timeout"} ELSE {}}
            \cup {resource_reset("success", b) :
                    b \in IF "PUT state" \in Range(smooth.requests)
                          THEN Answers ELSE {"success"}}
    IN  answered(resource_reset("success", "success"))

Reset ==
    /\ steps < MaxSteps
    /\ \E done \in ResetOutcomes :
          /\ self' = done.self
          /\ raw' = done._state
          /\ dev' = done.device
          /\ last' = [op |-> "reset", parameter |-> "on", dirty |-> writes,
                      before |-> self, snapshot |-> raw,
                      desired |-> done.desired, formed |-> done.formed,
                      attrs |-> done.attrs, states |-> done.states,
                      requests |-> done.requests,
                      responses |-> done.responses,
                      return_status |-> done.return_status,
                      status |-> done.status]
          /\ writes' = IF done.status = "Raised" \/ done.requests = <<>>
                       THEN writes + 1
                       ELSE 0
    /\ steps' = steps + 1
    /\ UNCHANGED kind
    /\ UNCHANGED beside_resource

(* refresh() on the resource. *)
Refresh ==
    /\ steps < MaxSteps
    /\ \E fresh \in {refresh(self, dev, kind)} :
          /\ self' = fresh.self
          /\ raw' = fresh._state
    /\ writes' = 0
    /\ last' = NoCommit
    /\ steps' = steps + 1
    /\ UNCHANGED <<kind, dev>>
    /\ UNCHANGED beside_resource

(* A light drops out of, or comes back into, reach of the bridge. *)
Reachability ==
    /\ steps < MaxSteps
    /\ kind = "light"
    /\ dev' = [dev EXCEPT !.state.reachable = ~dev.state.reachable]
    /\ last' = NoCommit
    /\ steps' = steps + 1
    /\ UNCHANGED <<kind, self, raw, writes>>
    /\ UNCHANGED beside_resource

Next ==
    \/ \E a \in Assignments : Assign(a[1], a[2])
    \/ Set("", None)
    \/ \E v \in BOOLEAN : Set("on", v)
    \/ \E v \in RgbValues : Set("rgb", v)
    \/ Set("colour", <<255, 0, 0>>)
    \/ Refresh
    \/ Reachability

Spec == Init /\ [][Next]_vars

(***************************************************************************)
(* The life of one resource with reset(): assignments, turn_on and         *)
(* turn_off, set without a parameter, reset and refresh.                   *)
(***************************************************************************)
ResetNext ==
    \/ \E a \in Assignments : Assign(a[1], a[2])
    \/ Set("", None)
    \/ \E v \in BOOLEAN : Set("on", v)
    \/ Reset
    \/ Refresh
    \/ Reachability

ResetSpec == Init /\ [][ResetNext]_vars

(***************************************************************************)
(* The life of one resource whose transition time the caller sets to       *)
(* fractions of a second, 10.4 and 4.7, and clears again, between          *)
(* turn_on, turn_off, set without a parameter and refresh.                 *)
(***************************************************************************)
TransitionTimes == {<<104>>, <<47>>, None}

TimeNext ==
    \/ \E t \in TransitionTimes : Assign("transitiontime", t)
    \/ Set("", None)
    \/ \E v \in BOOLEAN : Set("on", v)
    \/ Refresh
    \/ Reachability

TimeSpec == Init /\ [][TimeNext]_vars

(***************************************************************************)
(* The life of one resource whose name and, for a group, whose list of     *)
(* members the caller changes: a member added, removed, replaced, listed   *)
(* twice or in another order.                                              *)
(***************************************************************************)
MemberLists == {<<>>, <<2>>, <<1, 1>>, <<2, 1>>, <<1, 2>>}

MemberNext ==
    \/ \E members \in MemberLists : Assign("lights", members)
    \/ \E name \in {"Den", "Kitchen"} : Assign("name", name)
    \/ Set("", None)
    \/ Refresh

MemberSpec == Init /\ [][MemberNext]_vars

(***************************************************************************)
(* The life of the brightness stash over a longer run of one resource that *)
(* starts on at brightness 100, against a device that answers every        *)
(* request with success: the caller sets and clears the transition time,   *)
(* turns the resource off and on and resets it.  stash is the history of   *)
(* self._bri: turns counts the commits that sent a change of on since the  *)
(* commit that last wrote the stash, and restored_after is that count at   *)
(* the commit that has just restored the brightness from the stash (-1     *)
(* when the last operation restored nothing).                              *)
(***************************************************************************)
MaxLife == 6

StashInit ==
    /\ kind \in {"light", "group"}
    /\ dev \in {d \in InitDevices(kind) :
                  /\ d[_attr_key(kind)].on
                  /\ d[_attr_key(kind)].bri = 100
                  /\ kind = "light" => d.state.colormode = "xy"}
    /\ self = refresh(Blank(kind), dev, kind).self
    /\ raw = refresh(Blank(kind), dev, kind)._state
    /\ last = NoCommit
    /\ writes = 0
    /\ steps = 0
    /\ stash = [turns |-> 0, restored_after |-> -1]
    /\ CacheIdle
    /\ CalcIdle
    /\ RuleIdle

(* The history after the commit done, made from the snapshot raw. *)
stash_after(done) ==
    LET entered == done.return_status # "NotCalled"
        on_state == raw[_attr_key(kind)].on
        timed_edge == /\ entered
                      /\ on_state # done.formed.on
                      /\ done.formed.transitiontime # None
        stashed == timed_edge /\ ~done.formed.on
        restored == /\ timed_edge
                    /\ done.formed.on
                    /\ self._bri # None
                    /\ done.formed._bri = None
        turned == /\ "PUT state" \in Range(done.requests)
                  /\ "on" \in DOMAIN done.states
                  /\ done.states.on # on_state
    IN  [turns |-> IF stashed \/ restored THEN 0
                   ELSE IF done.formed._bri # None /\ turned THEN stash.turns + 1
                   ELSE stash.turns,
         restored_after |-> IF restored THEN stash.turns ELSE -1]

(* The caller sets or clears the transition time. *)
StashAssign(value) ==
    /\ steps < MaxLife
    /\ self.transitiontime # value
    /\ self' = [self EXCEPT !.transitiontime = value]
    /\ writes' = writes + 1
    /\ last' = NoCommit
    /\ stash' = [stash EXCEPT !.restored_after = -1]
    /\ steps' = steps + 1
    /\ UNCHANGED <<kind, dev, raw>>
    /\ UNCHANGED beside_stash

(* turn_on(), turn_off() and reset(), every request answered with success. *)
StashCommit(op, done) ==
    /\ steps < MaxLife
    /\ self' = done.self
    /\ raw' = done._state
    /\ dev' = done.device
    /\ last' = [op |-> op, parameter |-> "on", dirty |-> writes,
                before |-> self, snapshot |-> raw,
                desired |-> done.desired, formed |-> done.formed,
                attrs |-> done.attrs, states |-> done.states,
                requests |-> done.requests, responses |-> done.responses,
                return_status |-> done.return_status, status |-> done.status]
    /\ writes' = IF done.requests = <<>> THEN writes ELSE 0
    /\ stash' = stash_after(done)
    /\ steps' = steps + 1
    /\ UNCHANGED kind
    /\ UNCHANGED beside_stash

TurnOn == StashCommit("set", resource_set("on", TRUE, "success", "success"))

TurnOff == StashCommit("set", resource_set("on", FALSE, "success", "success"))

StashReset == StashCommit("reset", resource_reset("success", "success"))

StashNext ==
    \/ \E value \in {<<100>>, None} : StashAssign(value)
    \/ TurnOn
    \/ TurnOff
    \/ StashReset

StashSpec == StashInit /\ [][StashNext]_vars

(***************************************************************************)
(* The conversion helpers on their own.  calc is one call: the function,   *)
(* its arguments, the interpreter it runs under and its result.  The       *)
(* arguments are drawn at the start: every triple of a value and two       *)
(* bounds around 0..MaxBound for constrain_value, every grey and some      *)
(* other triples for the colour conversions, every whole number of         *)
(* kelvins around the range the device takes for kelvin_to_mireds.         *)
(***************************************************************************)
MaxBound == 3

KelvinLow == 1900

KelvinHigh == 6600

ClampInputs ==
    {<<value, low, high>> :
        value \in (0 - 1)..(MaxBound + 1), low \in 0..MaxBound, high \in 0..MaxBound}

RgbInputs ==
    {<<r, r, r>> : r \in 0..RGB_MAX}
    \cup {<<0 - 5, 0, 0>>, <<0, 0, 1>>, <<0, 0, 255>>, <<255, 0, 0>>,
          <<300, 128, 5>>, <<10, 11, 12>>}

KelvinInputs == {<<kelvin>> : kelvin \in KelvinLow..KelvinHigh}

CalcInit ==
    /\ ResourceIdle
    /\ CacheIdle
    /\ RuleIdle
    /\ StashIdle
    /\ steps = 0
    /\ calc \in [fn : {"none"},
                 args : ClampInputs \cup RgbInputs \cup KelvinInputs,
                 py3k : BOOLEAN,
                 result : {<<>>}]

Apply(fn, result) ==
    /\ calc.fn = "none"
    /\ calc' = [calc EXCEPT !.fn = fn, !.result = result]
    /\ UNCHANGED steps
    /\ UNCHANGED beside_calc

ConstrainValue ==
    /\ calc.args \in ClampInputs
    /\ Apply("constrain_value",
             <<constrain_value(calc.args[1], calc.args[2], calc.args[3])>>)

RgbToXy ==
    /\ calc.args \in RgbInputs
    /\ Apply("rgb_to_xy", rgb_to_xy(calc.args))

RgbToHsb ==
    /\ calc.args \in RgbInputs
    /\ Apply("rgb_to_hsb", rgb_to_hsb(calc.args))

KelvinToMireds ==
    /\ calc.args \in KelvinInputs
    /\ Apply("kelvin_to_mireds", <<kelvin_to_mireds(calc.args[1], calc.py3k)>>)

CalcNext ==
    \/ ConstrainValue
    \/ RgbToXy
    \/ RgbToHsb
    \/ KelvinToMireds

CalcSpec == CalcInit /\ [][CalcNext]_vars

(***************************************************************************)
(* Properties of a call of set.  They read the record last of the call     *)
(* that has just returned.                                                 *)
(***************************************************************************)

(* The call was carried out to its end: a Light out of reach refuses it,   *)
(* and a connection failure ends it with an exception.                     *)
Committed == last.op = "set" /\ "GET" \in Range(last.requests)

(* The state object of the snapshot the call started from. *)
StateObj == last.snapshot[_attr_key(kind)]

ColourKeys == {"xy", "ct", "hue", "sat"}

Clamped(v, lo, hi) == IF v < lo THEN lo ELSE IF v > hi THEN hi ELSE v

(* What the device is sent for attribute k of obj: None goes as "none". *)
Sent(obj, k) ==
    IF k \in {"effect", "alert"}
    THEN (IF obj[k] = <<>> THEN "none" ELSE obj[k][1])
    ELSE obj[k]

(* Key k of the state object has a local value that differs from the snapshot. *)
Differs(k) == k \in DOMAIN last.formed /\ StateObj[k] # Sent(last.formed, k)

NoPut == \A i \in 1..Len(last.requests) : last.requests[i] \notin {"PUT attributes", "PUT state"}

(* rgb is resolved to hue/sat/bri: a Light in colour mode "hs" with a non-black rgb. *)
ResolvedHs ==
    /\ last.desired.rgb \notin {<<>>, <<0, 0, 0>>}
    /\ kind = "light"
    /\ last.desired.color_mode = "hs"

(* The brightness the workaround starts from: resolved and clamped. *)
Brightness ==
    IF ResolvedHs
    THEN Clamped(rgb_to_hsb(last.desired.rgb)[3], 0, 254)
    ELSE Clamped(last.desired.bri, 0, 254)

(* The caller left colour key k as the snapshot has it. *)
Untouched(k) == last.desired[k] = StateObj[k]

C2_PayloadIsTheDiff ==
    Committed =>
        /\ \A k \in DOMAIN StateObj \ {"on"} :
              /\ (k \in DOMAIN last.states) <=> Differs(k)
              /\ k \in DOMAIN last.states => last.states[k] = Sent(last.formed, k)
        /\ Differs("on") => ("on" \in DOMAIN last.states /\ last.states.on = last.formed.on)
        /\ DOMAIN last.states \subseteq DOMAIN StateObj \cup {"transitiontime"}

C2_Witness ==
    /\ Committed
    /\ Differs("bri")
    /\ Differs("effect")
    /\ ~Differs("hue")
    /\ "hue" \notin DOMAIN last.states

(* The scenario: bri = 200 and transitiontime = 10 on a light that is off at 100. *)
C3_Scenario ==
    /\ Committed
    /\ kind = "light"
    /\ StateObj.on = FALSE
    /\ StateObj.bri = 100
    /\ last.desired.on = FALSE
    /\ last.desired.bri = 200
    /\ last.desired.transitiontime = <<10 * TT_ONE>>
    /\ last.desired.rgb = <<>>
    /\ \A k \in ColourKeys : Untouched(k)
    /\ \A k \in {"effect", "alert"} : Sent(last.desired, k) = StateObj[k]

(***************************************************************************)
(* C3: a non-empty state payload contains on, with True when on did not    *)
(* differ from the snapshot; bri = 200 and transitiontime = 10 committed   *)
(* on a light whose snapshot has on = false, bri = 100 give exactly        *)
(* on = true, bri = 200, transitiontime = 10.                              *)
(***************************************************************************)
C3_OnIsForced ==
    /\ (Committed /\ DOMAIN last.states # {}) =>
          /\ "on" \in DOMAIN last.states
          /\ ~Differs("on") => last.states.on = TRUE
    /\ C3_Scenario => last.states = [on |-> TRUE, bri |-> 200, transitiontime |-> 10]

C3_Witness == C3_Scenario /\ "PUT state" \in Range(last.requests)

(***************************************************************************)
(* C4: the state payload contains transitiontime exactly when a transition *)
(* time is set and some key of the state object differs; with a transition *)
(* time set and no key differing no state request is sent.                 *)
(***************************************************************************)
C4_TransitionTimeJoinsADiff ==
    Committed =>
        /\ ("transitiontime" \in DOMAIN last.states)
              <=> (last.formed.transitiontime # None /\ \E k \in DOMAIN StateObj : Differs(k))
        /\ "transitiontime" \in DOMAIN last.states
              => last.states.transitiontime * TT_ONE = last.formed.transitiontime[1]
        /\ (last.formed.transitiontime # None /\ ~ \E k \in DOMAIN StateObj : Differs(k))
              => "PUT state" \notin Range(last.requests)

C4_Witness ==
    /\ Committed
    /\ last.formed.transitiontime # None
    /\ ~ \E k \in DOMAIN StateObj : Differs(k)

(***************************************************************************)
(* C5: a call that finds the snapshot on, the resource to be turned off    *)
(* and a transition time set stashes the clamped brightness b and sends    *)
(* b - 1, or 1 when b = 0.                                                 *)
(***************************************************************************)
C5_TurnOffStashes ==
    (Committed /\ StateObj.on = TRUE /\ last.formed.on = FALSE
               /\ last.formed.transitiontime # None)
        => /\ last.formed._bri = <<Brightness>>
           /\ self._bri = <<Brightness>>
           /\ last.formed.bri = IF Brightness > 0 THEN Brightness - 1 ELSE 1

C5_Witness ==
    /\ Committed
    /\ StateObj.on = TRUE
    /\ last.formed.on = FALSE
    /\ last.formed.transitiontime # None
    /\ Brightness = 0
    /\ last.states.bri = 1

(***************************************************************************)
(* C6: a call that finds the snapshot off, the resource to be turned on,   *)
(* a transition time set and a stashed brightness b restores the           *)
(* brightness to b and clears the stash.                                   *)
(***************************************************************************)
C6_TurnOnRestores ==
    (Committed /\ StateObj.on = FALSE /\ last.formed.on = TRUE
               /\ last.formed.transitiontime # None /\ last.before._bri # None)
        => /\ last.formed.bri = last.before._bri[1]
           /\ last.formed._bri = None

(***************************************************************************)
(* C7: when the snapshot's on equals the desired on, or no transition time *)
(* is set, the call leaves the stash and the brightness as they are.       *)
(***************************************************************************)
C7_NoEdgeNoWorkaround ==
    (Committed /\ (StateObj.on = last.formed.on \/ last.formed.transitiontime = None))
        => /\ last.formed._bri = last.before._bri
           /\ self._bri = last.before._bri
           /\ last.formed.bri = Brightness

C7_Witness ==
    /\ Committed
    /\ last.parameter = "on"
    /\ last.desired.on = FALSE
    /\ StateObj.on = FALSE
    /\ last.formed.transitiontime # None
    /\ last.states = <<>>

(***************************************************************************)
(* C8: when rgb = (0, 0, 0) is committed, the state payload that results   *)
(* sets on = false and carries no colour key the caller did not change.    *)
(***************************************************************************)
C8_BlackTurnsOff ==
    (Committed /\ last.desired.rgb = <<0, 0, 0>> /\ DOMAIN last.states # {})
        => /\ last.states.on = FALSE
           /\ \A k \in ColourKeys : k \in DOMAIN last.states => ~Untouched(k)

(***************************************************************************)
(* C9: a non-black rgb is resolved to one representation and cleared: for  *)
(* a Light in colour mode "hs" hue, sat and the brightness come from       *)
(* rgb_to_hsb and xy stays; otherwise xy comes from rgb_to_xy and hue and  *)
(* sat stay (clamped); rgb is unset once the payload is formed.            *)
(***************************************************************************)
C9_RgbResolvedOnce ==
    Committed =>
        /\ last.formed.rgb = None
        /\ self.rgb = None
        /\ last.desired.rgb \notin {<<>>, <<0, 0, 0>>} =>
              IF ResolvedHs
              THEN /\ last.formed.hue = rgb_to_hsb(last.desired.rgb)[1]
                   /\ last.formed.sat = rgb_to_hsb(last.desired.rgb)[2]
                   /\ \/ last.formed.bri = rgb_to_hsb(last.desired.rgb)[3]
                      \/ /\ StateObj.on # last.formed.on
                         /\ last.formed.transitiontime # None
                         /\ last.formed.on \/ last.formed._bri = <<rgb_to_hsb(last.desired.rgb)[3]>>
                   /\ last.formed.xy = last.desired.xy
              ELSE /\ last.formed.xy = rgb_to_xy(last.desired.rgb)
                   /\ last.formed.hue = Clamped(last.desired.hue, 0, 65535)
                   /\ last.formed.sat = Clamped(last.desired.sat, 0, 254)

C9_Witness ==
    /\ Committed
    /\ ResolvedHs
    /\ "hue" \in DOMAIN last.states
    /\ "xy" \notin DOMAIN last.states

(***************************************************************************)
(* C10: the requests of one call are, in this order, the attribute PUT if  *)
(* the attribute payload is not empty, the settling delay exactly after an *)
(* attribute PUT, the state PUT if any, and the refresh GET.               *)
(***************************************************************************)
C10_RequestOrder ==
    Committed =>
        /\ last.requests \in
              {<<"GET">>,
               <<"PUT attributes", "wait", "GET">>,
               <<"PUT state", "GET">>,
               <<"PUT attributes", "wait", "PUT state", "GET">>}
        /\ ("PUT attributes" \in Range(last.requests)) <=> (DOMAIN last.attrs # {})
        /\ "PUT state" \in Range(last.requests) => DOMAIN last.states # {}

C10_Witness ==
    last.requests = <<"PUT attributes", "wait", "PUT state", "GET">>

(***************************************************************************)
(* More properties of a call of set: its answers and its return value.     *)
(***************************************************************************)

(* Luminous.set was entered: the call was not refused. *)
Entered == last.op = "set" /\ last.return_status # "NotCalled"

(* How the attribute PUT of the call ended ("unsent" when there was none). *)
AttrAnswer ==
    IF "PUT attributes" \in Range(last.requests) THEN last.responses[1] ELSE "unsent"

(* Every request of the call got a response from the bridge. *)
Answered == "timeout" \notin Range(last.responses)

(* The attributes of the resource are the decoded values of the snapshot. *)
Mirrored ==
    LET state == raw[_attr_key(kind)]
    IN  /\ self.name = raw.name
        /\ self.on = state.on
        /\ self.bri = state.bri
        /\ self.hue = state.hue
        /\ self.sat = state.sat
        /\ self.ct = state.ct
        /\ self.xy = state.xy
        /\ self.effect = (IF state.effect = "none" THEN <<>> ELSE <<state.effect>>)
        /\ kind = "light" =>
              /\ self.alert = (IF state.alert = "none" THEN <<>> ELSE <<state.alert>>)
              /\ self.color_mode = state.colormode
              /\ self.is_reachable = state.reachable
        /\ kind = "group" =>
              /\ Len(self.lights) = Len(raw.lights)
              /\ Range(self.lights) = Range(raw.lights)

(* The snapshot is what the device holds now (refresh keeps xy validated). *)
Fetched ==
    raw = [dev EXCEPT ![_attr_key(kind)].xy =
                          <<Clamped(@[1], 0, 1000), Clamped(@[2], 0, 1000)>>]

(***************************************************************************)
(* C11, as stated: whenever the state payload a call formed is not empty,  *)
(* it is transmitted, whatever the attribute phase gave.  The code skips   *)
(* it once the attribute PUT has reported an error.                        *)
(***************************************************************************)
C11_StateAlwaysSent ==
    (Entered /\ DOMAIN last.states # {}) => "PUT state" \in Range(last.requests)

(***************************************************************************)
(* C11, amended: the state payload is transmitted exactly when it is not   *)
(* empty and the attribute PUT, if there was one, reported no error; it is *)
(* then the request after the attribute PUT.                               *)
(***************************************************************************)
C11_StateSentUnlessAttributeError ==
    (Entered /\ AttrAnswer # "timeout") =>
        /\ ("PUT state" \in Range(last.requests))
              <=> (DOMAIN last.states # {} /\ AttrAnswer # "error")
        /\ \A i, j \in 1..Len(last.requests) :
              (last.requests[i] = "PUT attributes" /\ last.requests[j] = "PUT state")
                  => i < j

C11_Witness ==
    /\ Entered
    /\ AttrAnswer = "error"
    /\ DOMAIN last.states # {}
    /\ "PUT state" \notin Range(last.requests)

(***************************************************************************)
(* C12: when every request of Luminous.set is answered, it returns True if *)
(* no answer holds an error entry and False otherwise; it raises only when *)
(* a request gets no answer.                                               *)
(***************************************************************************)
C12_TrueIffNoError ==
    Entered =>
        /\ Answered => last.return_status \in {"True", "False"}
        /\ last.return_status = "True"
              <=> (Answered /\ "error" \notin Range(last.responses))
        /\ last.return_status = "Raised" <=> ~Answered

C12_Witness ==
    /\ Entered
    /\ last.responses = <<"success", "error">>
    /\ last.return_status = "False"

(***************************************************************************)
(* C13, as stated: Light.set returns a Boolean, True when the light is     *)
(* reachable and no request reported an error, False otherwise.            *)
(***************************************************************************)
C13_LightSetReturnsBoolean ==
    (kind = "light" /\ last.op = "set" /\ Answered) =>
        /\ last.status \in {"True", "False"}
        /\ last.status = "True"
              <=> (last.before.is_reachable /\ "error" \notin Range(last.responses))

C15_UnreachableRefused ==
    (kind = "light" /\ last.op = "set" /\ ~last.before.is_reachable) =>
        /\ last.status = "False"
        /\ last.requests = <<>>

C15_Witness ==
    /\ kind = "light"
    /\ last.op = "set"
    /\ ~last.before.is_reachable
    /\ last.parameter = "on"

(***************************************************************************)
(* C16: set with a parameter that names no attribute changes no attribute  *)
(* and goes on as set without a parameter does from the same object and    *)
(* snapshot, with the same answers: same payloads, same requests, same     *)
(* formed object and same return value.                                    *)
(***************************************************************************)
C16_UnknownParameterIgnored ==
    (last.op = "set" /\ last.parameter = "colour") =>
        /\ last.status # "Raised" \/ ~Answered
        /\ last.desired = last.before
        /\ \E a \in Answers, b \in Answers :
              \E plain \in {IF kind = "light"
                            THEN Light_set(last.before, last.snapshot, dev, "", None, a, b)
                            ELSE Luminous_set(last.before, last.snapshot, dev, kind,
                                              "", None, a, b)} :
                  /\ plain.responses = last.responses
                  /\ plain.attrs = last.attrs
                  /\ plain.states = last.states
                  /\ plain.requests = last.requests
                  /\ plain.formed = last.formed
                  /\ plain.status = last.status

C16_Witness ==
    /\ last.op = "set"
    /\ last.parameter = "colour"
    /\ last.dirty > 0
    /\ "PUT state" \in Range(last.requests)

(***************************************************************************)
(* The Bridge's caches.  hub is the device: its lights (id to name) and    *)
(* its groups (id to name and member ids).  bridge holds Bridge.lights and *)
(* Bridge.groups, the lists of cached objects in list order; an object is  *)
(* its identity oid, its index, its name and, for a Group, its lights (the *)
(* oids of the Light objects).  made counts the objects constructed so     *)
(* far.  Bridge.all_lights (group 0) is in neither list and is left out.   *)
(***************************************************************************)
Ids == 1..2

Names == {"Kitchen", "Den"}

(***************************************************************************)
(* The arguments of a lookup.  Python tells an int, a string, a resource   *)
(* and a nested list apart with isinstance; here each value carries its    *)
(* type t, with the value in n (an int, or the oid of a resource), s (a    *)
(* string) or l (a list).                                                  *)
(***************************************************************************)
AnInt(i) == [t |-> "int", n |-> i, s |-> "", l |-> <<>>]

AStr(name) == [t |-> "str", n |-> 0, s |-> name, l |-> <<>>]

AnObj(o) == [t |-> "obj", n |-> o, s |-> "", l |-> <<>>]

AList(list) == [t |-> "list", n |-> 0, s |-> "", l |-> list]

RECURSIVE flatten_struct(_)
flatten_struct(struct) ==
    IF struct = <<>> THEN <<>>
    ELSE (IF Head(struct).t = "list"
          THEN flatten_struct(Head(struct).l)
          ELSE <<Head(struct)>>)
         \o flatten_struct(Tail(struct))

(***************************************************************************)
(* _get_from_pool with arguments of every kind: the resources given come   *)
(* first, as given; then the pool's objects whose name or index was given, *)
(* in pool order.  The result is the list of the objects' identities.      *)
(***************************************************************************)
get_from_pool(pool, args) ==
    LET sorted(items) ==
            LET ids == {items[i].n : i \in {j \in 1..Len(items) : items[j].t = "int"}}
                names == {items[i].s : i \in {j \in 1..Len(items) : items[j].t = "str"}}
                things == SelectSeq(items, LAMBDA item : item.t = "obj")
                matching == SelectSeq(pool, LAMBDA thing :
                                thing.name \in names \/ thing.index \in ids)
            IN  [i \in 1..Len(things) |-> things[i].n]
                \o [i \in 1..Len(matching) |-> matching[i].oid]
    IN  sorted(flatten_struct(args))

(* get_light / get_group: the first of the list, or None. *)
(* Variant: the last of the list. *)
the_one_last(objects) ==
    IF objects # <<>> THEN <<objects[Len(objects)]>> ELSE None

the_one(objects) ==
    IF objects # <<>> THEN <<objects[1]>> ELSE None

(***************************************************************************)
(* The loop of refresh_lights and refresh_groups over the ids the device   *)
(* lists: the first cached object with that index is refreshed in place,   *)
(* an id without one gets a new object at the end of the list.  values     *)
(* gives, for each listed id, the attributes a refresh reads.  The result  *)
(* is the pool and the number of objects constructed.                      *)
(***************************************************************************)
(* Variant: cached objects whose id is not listed are dropped first. *)
RECURSIVE refresh_pool_pruning(_, _, _, _)
refresh_pool_pruning(pool, listing, values, count) ==
    LET listed == SelectSeq(pool, LAMBDA thing : thing.index \in DOMAIN values)
    IN  IF listing = <<>> THEN [pool |-> listed, made |-> count]
        ELSE IF \E i \in 1..Len(listed) : listed[i].index = Head(listing)
        THEN refresh_pool_pruning(
                 [i \in 1..Len(listed) |->
                     IF listed[i].index = Head(listing)
                     THEN values[Head(listing)] @@ listed[i]
                     ELSE listed[i]],
                 Tail(listing), values, count)
        ELSE refresh_pool_pruning(
                 Append(listed, values[Head(listing)]
                                @@ [oid |-> count + 1, index |-> Head(listing)]),
                 Tail(listing), values, count + 1)

(* Variant: every listed id gets a new object. *)
RECURSIVE refresh_pool_appending(_, _, _, _)
refresh_pool_appending(pool, listing, values, count) ==
    IF listing = <<>> THEN [pool |-> pool, made |-> count]
    ELSE refresh_pool_appending(
             Append(pool, values[Head(listing)]
                          @@ [oid |-> count + 1, index |-> Head(listing)]),
             Tail(listing), values, count + 1)

RECURSIVE refresh_pool(_, _, _, _)
refresh_pool(pool, listing, values, count) ==
    IF listing = <<>> THEN [pool |-> pool, made |-> count]
    ELSE IF \E i \in 1..Len(pool) : pool[i].index = Head(listing)
    THEN refresh_pool(
             [i \in 1..Len(pool) |->
                 IF /\ pool[i].index = Head(listing)
                    /\ \A j \in 1..(i - 1) : pool[j].index # Head(listing)
                 THEN values[Head(listing)] @@ pool[i]
                 ELSE pool[i]],
             Tail(listing), values, count)
    ELSE refresh_pool(
             Append(pool, values[Head(listing)]
                          @@ [oid |-> count + 1, index |-> Head(listing)]),
             Tail(listing), values, count + 1)

(* What Light.refresh and Group.refresh read for each listed id. *)
light_values(h) == [id \in DOMAIN h.lights |-> [name |-> h.lights[id]]]

group_values(h, lights) ==
    [id \in DOMAIN h.groups |->
        [name |-> h.groups[id].name,
         lights |-> get_from_pool(lights,
                        <<AList([i \in 1..Len(h.groups[id].lights) |->
                                   AnInt(h.groups[id].lights[i])])>>)]]

(***************************************************************************)
(* refresh_lights and refresh_groups, on the caches b against the device   *)
(* h, with the ids in the order the response lists them.  Group.refresh    *)
(* looks its members up with get_lights, which refreshes the lights, so    *)
(* refresh_groups refreshes the lights too once the device lists a group.  *)
(***************************************************************************)
refresh_lights(b, h, count, light_order) ==
    LET done(r) == [bridge |-> [b EXCEPT !.lights = r.pool], made |-> r.made]
    IN  done(refresh_pool(b.lights, light_order, light_values(h), count))

refresh_groups(b, h, count, light_order, group_order) ==
    LET grouped(l) ==
            LET done(r) == [bridge |-> [lights |-> l.pool, groups |-> r.pool],
                            made |-> r.made]
            IN  done(refresh_pool(b.groups, group_order,
                                  group_values(h, l.pool), l.made))
    IN  IF group_order = <<>>
        THEN [bridge |-> b, made |-> count]
        ELSE grouped(refresh_pool(b.lights, light_order, light_values(h), count))

(* The orders in which a response may list the ids of a set. *)
Orderings(ids) == {s \in [1..Cardinality(ids) -> ids] : Range(s) = ids}

(***************************************************************************)
(* delete_group: look the group up (get_group refreshes the groups), send  *)
(* the DELETE when one is found, refresh the groups again.  reply is the   *)
(* device's answer; on success the device has dropped the group.  The      *)
(* result carries the caches, the device, the group found, the requests    *)
(* and the return value.                                                   *)
(***************************************************************************)
delete_group(b, h, count, name_or_id, reply, light_order, group_order) ==
    LET finish(h2, group, status, sent, again) ==
            [bridge |-> again.bridge, made |-> again.made, hub |-> h2,
             result |-> group, status |-> status, sent |-> sent]
        answered(looked, group, index) ==
            LET h2 == IF group # None /\ reply = "success"
                      THEN [h EXCEPT !.groups =
                               [id \in DOMAIN h.groups \ {index} |-> h.groups[id]]]
                      ELSE h
                order2 == SelectSeq(group_order, LAMBDA id : id \in DOMAIN h2.groups)
            IN  finish(h2, group,
                       IF group # None /\ reply = "success" THEN "True" ELSE "False",
                       IF group # None THEN <<"DELETE">> ELSE <<>>,
                       refresh_groups(looked.bridge, h2, looked.made,
                                      light_order, order2))
        found(looked, group) ==
            answered(looked, group,
                     IF group = None THEN 0
                     ELSE (CHOOSE thing \in Range(looked.bridge.groups) :
                               thing.oid = group[1]).index)
        looked_up(looked) ==
            found(looked, the_one(get_from_pool(looked.bridge.groups, <<name_or_id>>)))
    IN  looked_up(refresh_groups(b, h, count, light_order, group_order))

(***************************************************************************)
(* The device's handling of POST groups.  It gives the new group the       *)
(* lowest id that is free and answers with the address of the group,       *)
(* "/groups/<id>"; it answers with an error when reply says so or no id is *)
(* free.  The lights arrive as strings of their ids; the device keeps the  *)
(* ones it has.  id is the address as split('/') cuts it.                  *)
(***************************************************************************)
int(string) == CHOOSE n \in 0..9 : ToString(n) = string

hub_post(h, name, lights, reply) ==
    LET free == Ids \ DOMAIN h.groups
        lowest == CHOOSE id \in free : \A other \in free : id <= other
        members == SelectSeq([i \in 1..Len(lights) |-> int(lights[i])],
                             LAMBDA index : index \in DOMAIN h.lights)
    IN  IF reply = "success" /\ free # {}
        THEN [hub |-> [h EXCEPT !.groups =
                          (lowest :> [name |-> name, lights |-> members]) @@ @],
              response |-> [t |-> "success",
                            id |-> <<"", "groups", ToString(lowest)>>]]
        ELSE [hub |-> h, response |-> [t |-> "error", id |-> <<>>]]

(* The id create_group reads from the response: the last part of the address. *)
(* Variant: no id is read. *)
new_id_unread(response) == None

new_id(response) ==
    IF response.t = "success"
    THEN <<int(response.id[Len(response.id)])>>
    ELSE None

(***************************************************************************)
(* create_group: look the lights up (get_lights refreshes the lights),     *)
(* POST the name and the lights' ids, read the new id from the answer,     *)
(* refresh the groups.  group_order lists the device's groups after the    *)
(* POST.  The result carries the caches, the device, the id returned, the  *)
(* ids posted and the request.                                             *)
(***************************************************************************)
create_group(b, h, count, name, args, reply, light_order, group_order) ==
    LET finish(posted, id, data, again) ==
            [bridge |-> again.bridge, made |-> again.made, hub |-> posted.hub,
             result |-> id, data |-> data, sent |-> <<"POST">>,
             reply |-> posted.response.t]
        answered(looked, data, posted) ==
            finish(posted, new_id(posted.response), data,
                   refresh_groups(looked.bridge, posted.hub, looked.made,
                                  light_order, group_order))
        selected(looked, lights) ==
            answered(looked, lights, hub_post(h, name, lights, reply))
        listed(looked, objects) ==
            selected(looked,
                     [i \in 1..Len(objects) |->
                         ToString((CHOOSE thing \in Range(looked.bridge.lights) :
                                       thing.oid = objects[i]).index)])
        looked_up(looked) ==
            listed(looked, get_from_pool(looked.bridge.lights, <<AList(args)>>))
    IN  looked_up(refresh_lights(b, h, count, light_order))

(***************************************************************************)
(* The devices at the start, and the caches Bridge.__init__ builds from an *)
(* empty Bridge with refresh_lights and refresh_groups.                    *)
(***************************************************************************)
InitHubs ==
    {[lights |-> l, groups |-> g] :
        l \in {(1 :> "Kitchen"), (1 :> "Kitchen") @@ (2 :> "Den")},
        g \in {<<>>, (1 :> [name |-> "Den", lights |-> <<1>>])}}

NoOutcome ==
    [op |-> "none", args |-> <<>>, result |-> <<>>, status |-> "None",
     before |-> <<>>, sent |-> <<>>, data |-> <<>>, reply |-> ""]

(* The arguments lookups are called with, for the objects of a pool. *)
Selections(pool) ==
    {<<>>,
     <<AnInt(1)>>,
     <<AStr("Kitchen")>>,
     <<AStr("Nope")>>,
     <<AnInt(1), AList(<<AStr("Den"), AnInt(5)>>)>>,
     <<AList(<<AList(<<AnInt(2), AnInt(1)>>)>>)>>}
    \cup {<<AnInt(1), AList(<<AStr("Kitchen"), AnInt(5)>>), AnObj(pool[i].oid)>> :
             i \in 1..Len(pool)}
    \cup {<<AnObj(pool[i].oid), AnInt(pool[i].index)>> : i \in 1..Len(pool)}
    \cup {<<AnObj(pool[i].oid)>> : i \in 1..Len(pool)}

CacheInit ==
    /\ ResourceIdle
    /\ CalcIdle
    /\ RuleIdle
    /\ StashIdle
    /\ steps = 0
    /\ hub \in InitHubs
    /\ \E light_order \in Orderings(DOMAIN hub.lights),
          group_order \in Orderings(DOMAIN hub.groups) :
          \E built \in {refresh_groups(
                           refresh_lights([lights |-> <<>>, groups |-> <<>>], hub, 0,
                                          light_order).bridge,
                           hub, Cardinality(DOMAIN hub.lights),
                           light_order, group_order)} :
              /\ bridge = built.bridge
              /\ made = built.made
    /\ outcome = NoOutcome

(* Bridge.refresh_lights(). *)
RefreshLights ==
    /\ steps < MaxSteps
    /\ \E light_order \in Orderings(DOMAIN hub.lights) :
          \E done \in {refresh_lights(bridge, hub, made, light_order)} :
              /\ bridge' = done.bridge
              /\ made' = done.made
    /\ outcome' = [NoOutcome EXCEPT !.op = "refresh_lights", !.before = bridge]
    /\ steps' = steps + 1
    /\ UNCHANGED hub
    /\ UNCHANGED beside_cache

(* Bridge.refresh_groups(). *)
RefreshGroups ==
    /\ steps < MaxSteps
    /\ \E light_order \in Orderings(DOMAIN hub.lights),
          group_order \in Orderings(DOMAIN hub.groups) :
          \E done \in {refresh_groups(bridge, hub, made, light_order, group_order)} :
              /\ bridge' = done.bridge
              /\ made' = done.made
    /\ outcome' = [NoOutcome EXCEPT !.op = "refresh_groups", !.before = bridge]
    /\ steps' = steps + 1
    /\ UNCHANGED hub
    /\ UNCHANGED beside_cache

(* Bridge.get_lights(args) and, with single, Bridge.get_light(args). *)
GetLights(args, single) ==
    /\ steps < MaxSteps
    /\ \E light_order \in Orderings(DOMAIN hub.lights) :
          \E done \in {refresh_lights(bridge, hub, made, light_order)} :
              /\ bridge' = done.bridge
              /\ made' = done.made
              /\ \E objects \in {get_from_pool(done.bridge.lights, args)} :
                    outcome' = [NoOutcome EXCEPT
                                   !.op = IF single THEN "get_light" ELSE "get_lights",
                                   !.args = args,
                                   !.result = IF single THEN the_one(objects)
                                              ELSE objects,
                                   !.before = bridge]
    /\ steps' = steps + 1
    /\ UNCHANGED hub
    /\ UNCHANGED beside_cache

(* Bridge.get_groups(args) and, with single, Bridge.get_group(args). *)
GetGroups(args, single) ==
    /\ steps < MaxSteps
    /\ \E light_order \in Orderings(DOMAIN hub.lights),
          group_order \in Orderings(DOMAIN hub.groups) :
          \E done \in {refresh_groups(bridge, hub, made, light_order, group_order)} :
              /\ bridge' = done.bridge
              /\ made' = done.made
              /\ \E objects \in {get_from_pool(done.bridge.groups, args)} :
                    outcome' = [NoOutcome EXCEPT
                                   !.op = IF single THEN "get_group" ELSE "get_groups",
                                   !.args = args,
                                   !.result = IF single THEN the_one(objects)
                                              ELSE objects,
                                   !.before = bridge]
    /\ steps' = steps + 1
    /\ UNCHANGED hub
    /\ UNCHANGED beside_cache

(* Bridge.delete_group(name_or_id), with the device's answer to the DELETE. *)
DeleteGroup(name_or_id, reply) ==
    /\ steps < MaxSteps
    /\ \E light_order \in Orderings(DOMAIN hub.lights),
          group_order \in Orderings(DOMAIN hub.groups) :
          \E done \in {delete_group(bridge, hub, made, name_or_id, reply,
                                    light_order, group_order)} :
              /\ (reply = "success" /\ done.result # None) =>
                    \E id \in DOMAIN hub.groups :
                        \E i \in 1..Len(done.bridge.groups) :
                            /\ done.bridge.groups[i].oid = done.result[1]
                            /\ done.bridge.groups[i].index = id
              /\ bridge' = done.bridge
              /\ made' = done.made
              /\ hub' = done.hub
              /\ outcome' = [NoOutcome EXCEPT
                                !.op = "delete_group", !.args = <<name_or_id>>,
                                !.result = done.result, !.status = done.status,
                                !.before = bridge, !.sent = done.sent]
    /\ steps' = steps + 1
    /\ UNCHANGED beside_cache

(***************************************************************************)
(* Bridge.create_group(name, args), with the device's answer to the POST.  *)
(* The lights are given by id, by name or as Light objects of the cache.   *)
(***************************************************************************)
CreateGroup(name, args, reply) ==
    /\ steps < MaxSteps
    /\ \E light_order \in Orderings(DOMAIN hub.lights),
          group_order \in Orderings(DOMAIN hub_post(hub, name, <<>>, reply).hub.groups) :
          \E done \in {create_group(bridge, hub, made, name, args, reply,
                                    light_order, group_order)} :
              /\ bridge' = done.bridge
              /\ made' = done.made
              /\ hub' = done.hub
              /\ outcome' = [NoOutcome EXCEPT
                                !.op = "create_group",
                                !.args = <<AStr(name), AList(args)>>,
                                !.result = done.result, !.before = bridge,
                                !.sent = done.sent, !.data = done.data,
                                !.reply = done.reply]
    /\ steps' = steps + 1
    /\ UNCHANGED beside_cache

(* Another client of the device adds, renames or removes a resource. *)
HubAdd(res_type, id, name) ==
    /\ steps < MaxSteps
    /\ id \notin DOMAIN hub[res_type]
    /\ hub' = [hub EXCEPT
                  ![res_type] =
                      (id :> IF res_type = "lights" THEN name
                             ELSE [name |-> name,
                                   lights |-> SelectSeq(<<1, 2>>, LAMBDA index :
                                                 index \in DOMAIN hub.lights)])
                      @@ @]
    /\ outcome' = NoOutcome
    /\ steps' = steps + 1
    /\ UNCHANGED <<bridge, made>>
    /\ UNCHANGED beside_cache

HubRename(res_type, id, name) ==
    /\ steps < MaxSteps
    /\ id \in DOMAIN hub[res_type]
    /\ hub' = IF res_type = "lights"
              THEN [hub EXCEPT !.lights[id] = name]
              ELSE [hub EXCEPT !.groups[id].name = name]
    /\ hub' # hub
    /\ outcome' = NoOutcome
    /\ steps' = steps + 1
    /\ UNCHANGED <<bridge, made>>
    /\ UNCHANGED beside_cache

HubDrop(res_type, id) ==
    /\ steps < MaxSteps
    /\ id \in DOMAIN hub[res_type]
    /\ hub' = IF res_type = "lights"
              THEN [lights |-> [i \in DOMAIN hub.lights \ {id} |-> hub.lights[i]],
                    groups |-> [g \in DOMAIN hub.groups |->
                                   [hub.groups[g] EXCEPT
                                       !.lights = SelectSeq(@, LAMBDA index :
                                                      index # id)]]]
              ELSE [hub EXCEPT !.groups =
                       [g \in DOMAIN hub.groups \ {id} |-> hub.groups[g]]]
    /\ outcome' = NoOutcome
    /\ steps' = steps + 1
    /\ UNCHANGED <<bridge, made>>
    /\ UNCHANGED beside_cache

(* The caller assigns the name of a cached Light and does not commit it. *)
WriteName(i, name) ==
    /\ steps < MaxSteps
    /\ i \in 1..Len(bridge.lights)
    /\ bridge.lights[i].name # name
    /\ bridge' = [bridge EXCEPT !.lights[i].name = name]
    /\ outcome' = NoOutcome
    /\ steps' = steps + 1
    /\ UNCHANGED <<hub, made>>
    /\ UNCHANGED beside_cache

CacheNext ==
    \/ RefreshLights
    \/ RefreshGroups
    \/ \E args \in Selections(bridge.lights), single \in BOOLEAN :
          GetLights(args, single)
    \/ \E args \in Selections(bridge.groups), single \in BOOLEAN :
          GetGroups(args, single)
    \/ \E name_or_id \in {AnInt(1), AnInt(7), AStr("Den")}
                          \cup {AnObj(bridge.groups[i].oid) :
                                   i \in 1..Len(bridge.groups)},
          reply \in {"success", "error"} :
          DeleteGroup(name_or_id, reply)
    \/ \E res_type \in {"lights", "groups"}, id \in Ids, name \in Names :
          HubAdd(res_type, id, name)
    \/ \E res_type \in {"lights", "groups"}, id \in Ids, name \in Names :
          HubRename(res_type, id, name)
    \/ \E res_type \in {"lights", "groups"}, id \in Ids :
          HubDrop(res_type, id)

CacheSpec == CacheInit /\ [][CacheNext]_vars

(***************************************************************************)
(* The groups of a Bridge as they are created and deleted: create_group,   *)
(* delete_group and get_group by id, while another client of the device    *)
(* adds and removes lights and groups.                                     *)
(***************************************************************************)
GroupNext ==
    \/ \E args \in {<<>>, <<AnInt(1), AStr("Den")>>}
                    \cup {<<AnObj(bridge.lights[i].oid)>> :
                             i \in 1..Len(bridge.lights)},
          reply \in {"success", "error"} :
          CreateGroup("Hall", args, reply)
    \/ \E id \in Ids, reply \in {"success", "error"} :
          DeleteGroup(AnInt(id), reply)
    \/ \E id \in Ids : GetGroups(<<AnInt(id)>>, TRUE)
    \/ \E res_type \in {"lights", "groups"}, id \in Ids :
          HubAdd(res_type, id, "Den")
    \/ \E res_type \in {"lights", "groups"}, id \in Ids :
          HubDrop(res_type, id)

GroupSpec == CacheInit /\ [][GroupNext]_vars

(***************************************************************************)
(* The lists of a Bridge under every operation that can add to them:       *)
(* refreshes, lookups, create_group and delete_group, while another client *)
(* of the device adds and removes lights and groups, so that an id the     *)
(* device has dropped comes back.                                          *)
(***************************************************************************)
PoolNext ==
    \/ RefreshLights
    \/ RefreshGroups
    \/ \E args \in {<<>>, <<AnInt(1)>>}, single \in BOOLEAN : GetLights(args, single)
    \/ \E id \in Ids : GetGroups(<<AnInt(id)>>, TRUE)
    \/ \E args \in {<<>>, <<AnInt(1), AStr("Den")>>}, reply \in {"success", "error"} :
          CreateGroup("Hall", args, reply)
    \/ \E id \in Ids, reply \in {"success", "error"} :
          DeleteGroup(AnInt(id), reply)
    \/ \E res_type \in {"lights", "groups"}, id \in Ids :
          HubAdd(res_type, id, "Den")
    \/ \E res_type \in {"lights", "groups"}, id \in Ids :
          HubDrop(res_type, id)

PoolSpec == CacheInit /\ [][PoolNext]_vars

(***************************************************************************)
(* The cached Lights of a Bridge while the caller writes their names and   *)
(* looks lights and groups up before committing; the device stays as it    *)
(* is.  Group.refresh looks the members up with get_lights, so a refresh   *)
(* of the groups goes through refresh_lights as a lookup of lights does.   *)
(***************************************************************************)
WriteNext ==
    \/ \E i \in Ids, name \in {"Mine", "Yours"} : WriteName(i, name)
    \/ \E args \in {<<>>, <<AnInt(2)>>, <<AStr("Mine")>>}, single \in BOOLEAN :
          GetLights(args, single)
    \/ \E single \in BOOLEAN : GetGroups(<<AnInt(1)>>, single)
    \/ RefreshGroups

WriteSpec == CacheInit /\ [][WriteNext]_vars

(***************************************************************************)
(* Bridge.request: one HTTP request.  event is what the transport does:    *)
(* the connection or the sending times out or fails (inside the try        *)
(* block), the wait for the response times out or fails (getresponse,      *)
(* after the try block), or the response arrives.  The result tells the    *)
(* number of times the request was issued, whether the device got it and   *)
(* the exception the caller sees ("" for none).                            *)
(***************************************************************************)
Events ==
    {"answered", "connect_timeout", "connect_error",
     "response_timeout", "response_error"}

request(mode, event) ==
    IF event = "connect_timeout"
    THEN [mode |-> mode, issued |-> 1, delivered |-> FALSE, raised |-> "KphueTimeout"]
    ELSE IF event = "connect_error"
    THEN [mode |-> mode, issued |-> 1, delivered |-> FALSE, raised |-> "KphueException"]
    ELSE IF event = "response_timeout"
    THEN [mode |-> mode, issued |-> 1, delivered |-> TRUE, raised |-> "socket.timeout"]
    ELSE IF event = "response_error"
    THEN [mode |-> mode, issued |-> 1, delivered |-> TRUE, raised |-> "socket.error"]
    ELSE [mode |-> mode, issued |-> 1, delivered |-> TRUE, raised |-> ""]

(***************************************************************************)
(* The device's rules and schedules, as GET returns them.  An action of a  *)
(* rule is a record with an address and, for most, a body; 'body' in       *)
(* action is membership in the record's domain.                            *)
(***************************************************************************)
RuleActions ==
    {<<[address |-> "/groups/0/action", body |-> [bri |-> 10, ct |-> 200]],
       [address |-> "/groups/1/action", body |-> [bri |-> 50]],
       [address |-> "/sensors/2/state"]>>,
     <<[address |-> "/groups/0/action", body |-> [ct |-> 200]]>>,
     <<>>}

RuleDevices ==
    {[rules |-> (1 :> [name |-> "Dim", status |-> "enabled",
                       lasttriggered |-> "none", actions |-> actions]),
      schedules |-> (1 :> [name |-> "Wake", status |-> "enabled"])] :
        actions \in RuleActions}

(* Rule.refresh and Schedule.refresh: the attributes follow the device. *)
rule_refresh(obj, state) ==
    [obj EXCEPT !._state = state,
                !.name = state.name,
                !.status = hue_decode(state.status),
                !.lasttriggered = hue_decode(state.lasttriggered),
                !.actions = state.actions]

schedule_refresh(obj, state) ==
    [obj EXCEPT !._state = state, !.name = state.name, !.status = state.status]

(* The loop of Rule.set over one action. *)
(* Variant: the parameter is written into every body. *)
overwrite_every_body(action, parameter, value) ==
    IF "body" \in DOMAIN action
    THEN [action EXCEPT !.body = (parameter :> value) @@ @]
    ELSE action

overwrite(action, parameter, value) ==
    IF "body" \in DOMAIN action /\ parameter \in DOMAIN action.body
    THEN [action EXCEPT !.body[parameter] = value]
    ELSE action

(***************************************************************************)
(* Rule.set on the rule obj, against its state at the device.  The list    *)
(* self.actions is the list inside self._state (refresh stores the very    *)
(* object), so the snapshot changes with it.  reply is the device's answer *)
(* to the PUT when it gets it.  An exception of the PUT leaves the method  *)
(* there: no refresh follows.                                              *)
(***************************************************************************)
Rule_set(obj, state, parameter, value, event, reply) ==
    LET finish(written, put, state1) ==
            IF put.raised # ""
            THEN [self |-> written, device |-> state1,
                  data |-> [actions |-> written.actions], requests |-> <<put>>,
                  raised |-> put.raised, status |-> "Raised"]
            ELSE [self |-> rule_refresh(written, state1), device |-> state1,
                  data |-> [actions |-> written.actions],
                  requests |-> <<put, request("GET", "answered")>>,
                  raised |-> "",
                  status |-> IF reply = "error" THEN "False" ELSE "True"]
        sent(written, put) ==
            finish(written, put,
                   IF put.delivered /\ reply = "success"
                   THEN [state EXCEPT !.actions = written.actions]
                   ELSE state)
        looped(actions) ==
            sent([obj EXCEPT !.actions = actions, !._state.actions = actions],
                 request("PUT", event))
    IN  looped([i \in 1..Len(obj.actions) |->
                   overwrite(obj.actions[i], parameter, value)])

(***************************************************************************)
(* The device's handling of DELETE: the resource goes when the address     *)
(* names a collection and a member of it and reply says success; every     *)
(* answer is a list with one entry, a dict with the key success or error.  *)
(***************************************************************************)
hub_delete(devs, address, reply) ==
    IF /\ reply = "success"
       /\ address.collection \in DOMAIN devs
       /\ address.index \in DOMAIN devs[address.collection]
    THEN [devices |-> [devs EXCEPT ![address.collection] =
                          [id \in DOMAIN @ \ {address.index} |-> @[id]]],
          response |-> [t |-> "list", keys |-> <<"success">>]]
    ELSE [devices |-> devs, response |-> [t |-> "list", keys |-> <<"error">>]]

(***************************************************************************)
(* 'key' in response and response['key'].  In a list, in looks for an      *)
(* entry equal to the string, and the entries are dicts; a list takes no   *)
(* string as a subscript.                                                  *)
(***************************************************************************)
contains(response, key) ==
    IF response.t = "list" THEN FALSE ELSE key \in Range(response.keys)

subscript(response, key) ==
    IF response.t = "list" THEN "TypeError"
    ELSE IF key \in Range(response.keys) THEN ""
    ELSE "KeyError"

(* refresh_rules / refresh_schedules on a pool whose ids the device lists. *)
refresh_listed(pool, states, collection) ==
    [i \in 1..Len(pool) |->
        IF pool[i].index \in DOMAIN states
        THEN IF collection = "rules"
             THEN rule_refresh(pool[i], states[pool[i].index])
             ELSE schedule_refresh(pool[i], states[pool[i].index])
        ELSE pool[i]]

(***************************************************************************)
(* delete_rule and delete_schedule: look the resource up (the lookup       *)
(* refreshes the pool), send the DELETE to head/index, test the response,  *)
(* refresh the pool, return the status.  No resource found: the method     *)
(* fails on None._identifier.                                              *)
(***************************************************************************)
delete_resource(pools, devs, collection, head, name_or_id, event, reply) ==
    LET finish(pool, found, del, answer) ==
            LET base == [pools |-> [pools EXCEPT ![collection] = pool],
                         devices |-> IF del.delivered THEN answer.devices ELSE devs,
                         found |-> found, response |-> answer.response,
                         requests |-> <<request("GET", "answered"), del>>]
            IN  IF del.raised # ""
                THEN base @@ [raised |-> del.raised, status |-> "Raised"]
                ELSE IF contains(answer.response, "success")
                THEN [base EXCEPT !.pools[collection] =
                         refresh_listed(pool, answer.devices[collection], collection),
                                  !.requests = @ \o <<request("GET", "answered")>>]
                     @@ [raised |-> "", status |-> "True"]
                ELSE IF subscript(answer.response, "error") # ""
                THEN base @@ [raised |-> subscript(answer.response, "error"),
                              status |-> "Raised"]
                ELSE [base EXCEPT !.pools[collection] =
                         refresh_listed(pool, answer.devices[collection], collection),
                                  !.requests = @ \o <<request("GET", "answered")>>]
                     @@ [raised |-> "", status |-> "False"]
        looked_up(pool, found) ==
            IF found = None
            THEN [pools |-> [pools EXCEPT ![collection] = pool], devices |-> devs,
                  found |-> None, response |-> [t |-> "list", keys |-> <<>>],
                  requests |-> <<request("GET", "answered")>>,
                  raised |-> "AttributeError", status |-> "Raised"]
            ELSE finish(pool, found, request("DELETE", event),
                        hub_delete(devs,
                                   [collection |-> head,
                                    index |-> (CHOOSE thing \in Range(pool) :
                                                   thing.oid = found[1]).index],
                                   reply))
        refreshed(pool) == looked_up(pool, the_one(get_from_pool(pool, <<name_or_id>>)))
    IN  refreshed(refresh_listed(pools[collection], devs[collection], collection))

delete_rule(pools, devs, name_or_id, event, reply) ==
    delete_resource(pools, devs, "rules", "rules", name_or_id, event, reply)

delete_schedule(pools, devs, name_or_id, event, reply) ==
    delete_resource(pools, devs, "schedules", "schedule", name_or_id, event, reply)

NoRuleCall ==
    [op |-> "none", parameter |-> "", value |-> 0, event |-> "", reply |-> "",
     before |-> <<>>, held |-> <<>>, data |-> <<>>, requests |-> <<>>,
     found |-> <<>>, response |-> [t |-> "list", keys |-> <<>>],
     raised |-> "", status |-> "None"]

(* The Bridge after __init__: one Rule and one Schedule, refreshed. *)
RuleInit ==
    /\ ResourceIdle
    /\ CacheIdle
    /\ CalcIdle
    /\ StashIdle
    /\ steps = 0
    /\ rdev \in RuleDevices
    /\ rpool = [rules |->
                   <<rule_refresh([oid |-> 1, index |-> 1, name |-> "",
                                   status |-> None, lasttriggered |-> None,
                                   actions |-> <<>>, _state |-> <<>>],
                                  rdev.rules[1])>>,
                schedules |->
                   <<schedule_refresh([oid |-> 2, index |-> 1, name |-> "",
                                       status |-> "", _state |-> <<>>],
                                      rdev.schedules[1])>>]
    /\ rlast = NoRuleCall

(* What the transport and the device make of a request that changes something. *)
Fates ==
    {<<"answered", "success">>, <<"answered", "error">>,
     <<"connect_timeout", "">>, <<"connect_error", "">>,
     <<"response_timeout", "success">>, <<"response_error", "success">>,
     <<"response_timeout", "error">>}

(* rule.set(parameter, value) on the cached Rule, which the device still has. *)
RuleSet(parameter, value, fate) ==
    /\ steps < MaxSteps
    /\ 1 \in DOMAIN rdev.rules
    /\ \E done \in {Rule_set(rpool.rules[1], rdev.rules[1], parameter, value,
                             fate[1], fate[2])} :
          /\ rpool' = [rpool EXCEPT !.rules[1] = done.self]
          /\ rdev' = [rdev EXCEPT !.rules[1] = done.device]
          /\ rlast' = [NoRuleCall EXCEPT
                          !.op = "set", !.parameter = parameter, !.value = value,
                          !.event = fate[1], !.reply = fate[2],
                          !.before = rpool.rules[1], !.held = rdev.rules[1],
                          !.data = done.data, !.requests = done.requests,
                          !.raised = done.raised, !.status = done.status]
    /\ steps' = steps + 1
    /\ UNCHANGED beside_rule

(* rule.refresh(). *)
RuleRefresh ==
    /\ steps < MaxSteps
    /\ 1 \in DOMAIN rdev.rules
    /\ rpool' = [rpool EXCEPT !.rules[1] = rule_refresh(@, rdev.rules[1])]
    /\ rlast' = [NoRuleCall EXCEPT !.op = "refresh", !.before = rpool.rules[1],
                                   !.requests = <<request("GET", "answered")>>]
    /\ steps' = steps + 1
    /\ UNCHANGED rdev
    /\ UNCHANGED beside_rule

(* The caller edits an action of the cached Rule in place. *)
RuleEdit(value) ==
    /\ steps < MaxSteps
    /\ rpool.rules[1].actions # <<>>
    /\ "body" \in DOMAIN rpool.rules[1].actions[1]
    /\ rpool' = [rpool EXCEPT !.rules[1].actions[1].body.ct = value,
                              !.rules[1]._state.actions[1].body.ct = value]
    /\ rpool' # rpool
    /\ rlast' = NoRuleCall
    /\ steps' = steps + 1
    /\ UNCHANGED rdev
    /\ UNCHANGED beside_rule

(* bridge.delete_rule(name_or_id) and bridge.delete_schedule(name_or_id). *)
DeleteRule(name_or_id, fate) ==
    /\ steps < MaxSteps
    /\ \E done \in {delete_rule(rpool, rdev, name_or_id, fate[1], fate[2])} :
          /\ rpool' = done.pools
          /\ rdev' = done.devices
          /\ rlast' = [NoRuleCall EXCEPT
                          !.op = "delete_rule", !.event = fate[1], !.reply = fate[2],
                          !.held = rdev, !.found = done.found,
                          !.response = done.response,
                          !.requests = done.requests,
                          !.raised = done.raised, !.status = done.status]
    /\ steps' = steps + 1
    /\ UNCHANGED beside_rule

DeleteSchedule(name_or_id, fate) ==
    /\ steps < MaxSteps
    /\ \E done \in {delete_schedule(rpool, rdev, name_or_id, fate[1], fate[2])} :
          /\ rpool' = done.pools
          /\ rdev' = done.devices
          /\ rlast' = [NoRuleCall EXCEPT
                          !.op = "delete_schedule", !.event = fate[1],
                          !.reply = fate[2],
                          !.held = rdev, !.found = done.found,
                          !.response = done.response,
                          !.requests = done.requests,
                          !.raised = done.raised, !.status = done.status]
    /\ steps' = steps + 1
    /\ UNCHANGED beside_rule

RuleNext ==
    \/ \E parameter \in {"", "bri", "ct", "scene"}, value \in {10, 99}, fate \in Fates :
          RuleSet(parameter, value, fate)
    \/ RuleRefresh
    \/ \E value \in {200, 300} : RuleEdit(value)
    \/ \E name_or_id \in {AnInt(1), AStr("Dim"), AnInt(9)}, fate \in Fates :
          DeleteRule(name_or_id, fate)
    \/ \E name_or_id \in {AnInt(1), AStr("Wake"), AnInt(9)}, fate \in Fates :
          DeleteSchedule(name_or_id, fate)

RuleSpec == RuleInit /\ [][RuleNext]_vars

(***************************************************************************)
(* Properties of the caches.  They read outcome, the record of the cache   *)
(* operation that has just returned, with the caches as they were before   *)
(* it; bridge and hub are the caches and the device after it.              *)
(***************************************************************************)

(* The pool a lookup reads. *)
PoolOf(op) == IF op \in {"get_lights", "get_light"} THEN "lights" ELSE "groups"

HubName(res_type, id) ==
    IF res_type = "lights" THEN hub.lights[id] ELSE hub.groups[id].name

(* The objects that were cached before are still there, in their places. *)
Kept(res_type) ==
    /\ Len(bridge[res_type]) >= Len(outcome.before[res_type])
    /\ \A i \in 1..Len(outcome.before[res_type]) :
          /\ bridge[res_type][i].oid = outcome.before[res_type][i].oid
          /\ bridge[res_type][i].index = outcome.before[res_type][i].index

(* Every id the device lists has a cached object, with the device's name. *)
ListedCached(res_type) ==
    \A id \in DOMAIN hub[res_type] :
        \E i \in 1..Len(bridge[res_type]) :
            /\ bridge[res_type][i].index = id
            /\ bridge[res_type][i].name = HubName(res_type, id)

(* The objects added are new ones, one for each listed id not yet cached. *)
Appended(res_type) ==
    \A i \in (Len(outcome.before[res_type]) + 1)..Len(bridge[res_type]) :
        /\ bridge[res_type][i].index \in DOMAIN hub[res_type]
        /\ \A j \in 1..Len(bridge[res_type]) :
              (bridge[res_type][j].index = bridge[res_type][i].index
               \/ bridge[res_type][j].oid = bridge[res_type][i].oid) => j = i

(* A cached object whose id the device does not list is left as it was. *)
UnlistedUntouched(res_type) ==
    \A i \in 1..Len(outcome.before[res_type]) :
        outcome.before[res_type][i].index \notin DOMAIN hub[res_type]
            => bridge[res_type][i] = outcome.before[res_type][i]

(***************************************************************************)
(* C17: refresh_lights and refresh_groups refresh in place every cached    *)
(* object whose id the device lists, append a new object for every listed  *)
(* id that is not cached, and remove nothing: the objects cached before    *)
(* keep their identity and their places, and the list does not shrink.     *)
(***************************************************************************)
C17_RefreshKeepsAndAppends ==
    /\ outcome.op = "refresh_lights" =>
          /\ Kept("lights")
          /\ ListedCached("lights")
          /\ Appended("lights")
          /\ UnlistedUntouched("lights")
          /\ bridge.groups = outcome.before.groups
    /\ outcome.op = "refresh_groups" =>
          /\ Kept("groups")
          /\ ListedCached("groups")
          /\ Appended("groups")
          /\ UnlistedUntouched("groups")
          /\ Kept("lights")

C17_Witness ==
    /\ outcome.op = "refresh_lights"
    /\ Len(bridge.lights) > Len(outcome.before.lights)
    /\ \E i \in 1..Len(bridge.lights) : bridge.lights[i].index \notin DOMAIN hub.lights

(***************************************************************************)
(* C18, as stated: when delete_group has returned True, the group it       *)
(* deleted is no longer in Bridge.groups.  The code never takes an object  *)
(* out of the list.                                                        *)
(***************************************************************************)
C18_DeletedLeavesCache ==
    (outcome.op = "delete_group" /\ outcome.status = "True") =>
        \A i \in 1..Len(bridge.groups) : bridge.groups[i].oid # outcome.result[1]

(* The ints, strings and resources among the arguments, at any depth. *)
RECURSIVE Leaves(_)
Leaves(struct) ==
    UNION {IF struct[i].t = "list" THEN Leaves(struct[i].l) ELSE {struct[i]} :
              i \in 1..Len(struct)}

(* The objects the arguments of the lookup select: by index, name or handle. *)
Matches ==
    {thing.oid : thing \in
        {thing \in Range(bridge[PoolOf(outcome.op)]) :
            \E leaf \in Leaves(outcome.args) :
                \/ leaf.t = "int" /\ leaf.n = thing.index
                \/ leaf.t = "str" /\ leaf.s = thing.name
                \/ leaf.t = "obj" /\ leaf.n = thing.oid}}

(***************************************************************************)
(* C19, as stated: get_lights and get_groups return the objects that the   *)
(* ids, names and resources among their arguments select, each of them     *)
(* once.  A resource given together with its own id or name comes twice.   *)
(***************************************************************************)
C19_UnionWithoutDuplicates ==
    outcome.op \in {"get_lights", "get_groups"} =>
        /\ Range(outcome.result) = Matches
        /\ \A i, j \in 1..Len(outcome.result) :
              outcome.result[i] = outcome.result[j] => i = j

(***************************************************************************)
(* C20: a lookup whose arguments select nothing returns the empty list     *)
(* (get_lights, get_groups) or None (get_light, get_group); otherwise the  *)
(* single getters return the first object of the list lookup.              *)
(***************************************************************************)
C20_NoMatchIsEmpty ==
    /\ (outcome.op \in {"get_lights", "get_groups"} /\ Matches = {})
          => outcome.result = <<>>
    /\ outcome.op \in {"get_light", "get_group"} =>
          \E objects \in {get_from_pool(bridge[PoolOf(outcome.op)], outcome.args)} :
              /\ Range(objects) = Matches
              /\ outcome.result = (IF Matches = {} THEN None ELSE <<objects[1]>>)

C20_Witness ==
    /\ outcome.op = "get_light"
    /\ outcome.args = <<AStr("Nope")>>
    /\ bridge.lights # <<>>
    /\ outcome.result = None

(***************************************************************************)
(* C21: create_group sends one POST and returns the id the device gave the *)
(* new group when the device reports success, None when it reports an      *)
(* error.  Either way the groups are refreshed before it returns: every    *)
(* group the device lists is cached under the device's name and no cached  *)
(* object is lost; after a success get_group(returned id) yields a cached  *)
(* Group with that id, the name given and the lights the device holds for  *)
(* it.                                                                     *)
(***************************************************************************)
C21_CreateGroupReturnsId ==
    outcome.op = "create_group" =>
        /\ outcome.sent = <<"POST">>
        /\ Kept("groups")
        /\ ListedCached("groups")
        /\ outcome.reply = "error" => outcome.result = None
        /\ outcome.reply = "success" =>
              /\ outcome.result # None
              /\ outcome.result[1] \in DOMAIN hub.groups
              /\ hub.groups[outcome.result[1]].name = outcome.args[1].s
              /\ \A light_order \in Orderings(DOMAIN hub.lights),
                    group_order \in Orderings(DOMAIN hub.groups) :
                    \E again \in {refresh_groups(bridge, hub, made,
                                                 light_order, group_order).bridge} :
                        \E found \in {the_one(get_from_pool(
                                         again.groups, <<AnInt(outcome.result[1])>>))} :
                            /\ found # None
                            /\ \E i \in 1..Len(again.groups) :
                                  /\ again.groups[i].oid = found[1]
                                  /\ again.groups[i].index = outcome.result[1]
                                  /\ again.groups[i].name = outcome.args[1].s
                                  /\ again.groups[i].lights =
                                        get_from_pool(again.lights,
                                            <<AList([j \in 1..Len(hub.groups[outcome.result[1]].lights) |->
                                                        AnInt(hub.groups[outcome.result[1]].lights[j])])>>)

(* A group created with lights, cached as a new object. *)
C21_Witness ==
    /\ outcome.op = "create_group"
    /\ outcome.reply = "success"
    /\ outcome.data # <<>>
    /\ Len(bridge.groups) > Len(outcome.before.groups)
    /\ hub.groups[outcome.result[1]].lights # <<>>

(***************************************************************************)
(* Properties of the conversion helpers.  They read calc, the call that    *)
(* has just returned.                                                      *)
(***************************************************************************)

(***************************************************************************)
(* C22: constrain_value gives the same result with the bounds swapped,     *)
(* gives its result back when applied to it again, always returns a value  *)
(* between the lower and the higher of the two bounds, and returns the     *)
(* input when the input is already between them.                           *)
(***************************************************************************)
C22_ClampLaws ==
    calc.fn = "constrain_value" =>
        /\ calc.result[1] = constrain_value(calc.args[1], calc.args[3], calc.args[2])
        /\ constrain_value(calc.result[1], calc.args[2], calc.args[3]) = calc.result[1]
        /\ calc.result[1] >= Min2(calc.args[2], calc.args[3])
        /\ calc.result[1] <= Max2(calc.args[2], calc.args[3])
        /\ (/\ calc.args[1] >= Min2(calc.args[2], calc.args[3])
            /\ calc.args[1] <= Max2(calc.args[2], calc.args[3]))
              => calc.result[1] = calc.args[1]

(* A value above both bounds, the bounds given the wrong way round. *)
C22_Witness ==
    /\ calc.fn = "constrain_value"
    /\ calc.args[2] > calc.args[3]
    /\ calc.args[1] > calc.args[2]
    /\ calc.result[1] = calc.args[2]

(***************************************************************************)
(* C23, as stated: for every grey (r, r, r) with r in 0..255, rgb_to_hsb   *)
(* gives hue 0, saturation 0 and brightness round(254 * r / 255).  The     *)
(* code cuts the brightness off with int().                                *)
(***************************************************************************)
C23_GreyBrightnessRounded ==
    (/\ calc.fn = "rgb_to_hsb"
     /\ calc.args[1] = calc.args[2]
     /\ calc.args[2] = calc.args[3]
     /\ calc.args[1] \in 0..RGB_MAX)
        => calc.result = <<0, 0, round(BRI_MAX * calc.args[1], RGB_MAX, calc.py3k)>>

(***************************************************************************)
(* C24: rgb_to_xy of black, (0, 0, 0) after validation, is (0, 0): the sum *)
(* of the three components is 0 and the quotients are not formed.          *)
(***************************************************************************)
C24_BlackIsOrigin ==
    (calc.fn = "rgb_to_xy" /\ validate_rgb(calc.args) = <<0, 0, 0>>)
        => calc.result = <<0, 0>>

C24_Witness ==
    /\ calc.fn = "rgb_to_xy"
    /\ calc.args = <<0, 0, 0>>
    /\ calc.result = <<0, 0>>

(***************************************************************************)
(* C25: kelvin_to_mireds returns the whole number nearest to 1000000 over  *)
(* the kelvins clamped to 2000..6500: 500 for 2000 and everything below,   *)
(* 154 for 6500 and everything above, always within 153..500.              *)
(***************************************************************************)
C25_KelvinToMireds ==
    calc.fn = "kelvin_to_mireds" =>
        /\ calc.args[1] <= KELVIN_MIN => calc.result[1] = 500
        /\ calc.args[1] >= KELVIN_MAX => calc.result[1] = 154
        /\ calc.result[1] \in MIREDS_MIN..MIREDS_MAX
        /\ \E kelvin \in {constrain_value(calc.args[1], KELVIN_MIN, KELVIN_MAX)} :
              /\ kelvin \in KELVIN_MIN..KELVIN_MAX
              /\ 2 * (calc.result[1] * kelvin - 1000000) <= kelvin
              /\ 2 * (1000000 - calc.result[1] * kelvin) <= kelvin

(* An input above the range. *)
C25_Witness ==
    /\ calc.fn = "kelvin_to_mireds"
    /\ calc.args[1] > KELVIN_MAX
    /\ calc.result[1] = 154

(***************************************************************************)
(* Properties of rules, schedules and the transport.  They read rlast, the *)
(* record of the call that has just returned: the Rule (before) and the    *)
(* device (held) as they were, what the transport did to the request that  *)
(* changes something (event) and what the device answered (reply,          *)
(* response); rpool and rdev are the Bridge's lists and the device after   *)
(* the call.                                                               *)
(***************************************************************************)

(* The list of actions with the parameter overwritten where a body has it. *)
Overwritten(actions, parameter, value) ==
    /\ Len(actions) = Len(rlast.before.actions)
    /\ \A i \in 1..Len(actions) :
          IF /\ "body" \in DOMAIN rlast.before.actions[i]
             /\ parameter \in DOMAIN rlast.before.actions[i].body
          THEN /\ DOMAIN actions[i] = DOMAIN rlast.before.actions[i]
               /\ actions[i].address = rlast.before.actions[i].address
               /\ DOMAIN actions[i].body = DOMAIN rlast.before.actions[i].body
               /\ \A key \in DOMAIN actions[i].body :
                     actions[i].body[key] =
                         IF key = parameter THEN value
                         ELSE rlast.before.actions[i].body[key]
          ELSE actions[i] = rlast.before.actions[i]

(***************************************************************************)
(* C26: Rule.set(parameter, value) sends exactly one PUT, whose payload is *)
(* the whole list of actions with the parameter overwritten in every body  *)
(* that has it and everything else as it was, whether or not an action     *)
(* changed.  When the PUT is answered the rule is then refreshed, so that  *)
(* it shows the device, and the call returns False exactly when the answer *)
(* reports an error; the device takes the list on success and keeps its    *)
(* own otherwise.                                                          *)
(***************************************************************************)
C26_RuleSetSendsWholeList ==
    rlast.op = "set" =>
        /\ rlast.requests[1].mode = "PUT"
        /\ \A i \in 2..Len(rlast.requests) : rlast.requests[i].mode = "GET"
        /\ Overwritten(rlast.data.actions, rlast.parameter, rlast.value)
        /\ rlast.raised = "" =>
              /\ Len(rlast.requests) = 2
              /\ rlast.status = (IF rlast.reply = "error" THEN "False" ELSE "True")
              /\ rpool.rules[1]._state = rdev.rules[1]
              /\ rpool.rules[1].actions = rdev.rules[1].actions
              /\ rpool.rules[1].name = rdev.rules[1].name
              /\ rpool.rules[1].index = rlast.before.index
              /\ rdev.rules[1] =
                    (IF rlast.reply = "error" THEN rlast.held
                     ELSE [rlast.held EXCEPT !.actions = rlast.data.actions])

(* Two of three actions overwritten, and accepted by the device. *)
C26_Witness ==
    /\ rlast.op = "set"
    /\ rlast.parameter = "bri"
    /\ rlast.value = 99
    /\ rlast.status = "True"
    /\ Len(rlast.before.actions) = 3
    /\ rlast.data.actions # rlast.before.actions
    /\ rlast.data.actions[3] = rlast.before.actions[3]
    /\ rdev.rules[1].actions[2].body.bri = 99

(* The call whose request was given to the transport. *)
Transported ==
    \/ rlast.op = "set"
    \/ rlast.op \in {"delete_rule", "delete_schedule"} /\ rlast.found # None

(***************************************************************************)
(* C27, as stated: a timeout of the transport, while connecting or sending *)
(* or while waiting for the response, reaches the caller as KphueTimeout,  *)
(* any other failure of the connection as KphueException, and the request  *)
(* is issued once.  A timeout in getresponse is outside the try block.     *)
(***************************************************************************)
C27_TimeoutsSurfaceAsKphueTimeout ==
    Transported =>
        /\ rlast.event \in {"connect_timeout", "response_timeout"}
              => rlast.raised = "KphueTimeout"
        /\ rlast.event \in {"connect_error", "response_error"}
              => rlast.raised = "KphueException"
        /\ \A i \in 1..Len(rlast.requests) : rlast.requests[i].issued = 1

(***************************************************************************)
(* C30, as stated: delete_rule and delete_schedule, for a resource that is *)
(* there, return True when the response list of the device reports         *)
(* success and False, raising nothing, when it reports an error.  Both     *)
(* test the list as if it were one entry.                                  *)
(***************************************************************************)
C30_DeleteReportsOutcome ==
    (/\ rlast.op \in {"delete_rule", "delete_schedule"}
     /\ rlast.found # None
     /\ rlast.event = "answered")
        => /\ rlast.raised = ""
           /\ "success" \in Range(rlast.response.keys) => rlast.status = "True"
           /\ "error" \in Range(rlast.response.keys) => rlast.status = "False"

(***************************************************************************)
(* Properties of reset and of the pending scene.  They read last, the      *)
(* record of the call of reset or set that has just returned.              *)
(***************************************************************************)

(* The attributes reset writes. *)
ResetKeys == {"transitiontime", "effect", "rgb", "ct", "xy", "hue", "sat", "bri", "scene"}

(***************************************************************************)
(* C28: reset() leaves the resource with no transition time, no effect and *)
(* no rgb, ct 153, the xy of white, hue 0, sat 0 and bri 254, touches no   *)
(* other attribute, and commits with on = true (a Light out of reach       *)
(* refuses the commit).  A state payload it sends carries on = true and no *)
(* transitiontime, and the brightness workaround does not act: the         *)
(* brightness formed is 254 and the stash is as it was.                    *)
(***************************************************************************)
C28_ResetIsWhiteAndOn ==
    last.op = "reset" =>
        /\ last.desired.transitiontime = None
        /\ last.desired.effect = None
        /\ last.desired.rgb = None
        /\ last.desired.ct = MIREDS_MIN
        /\ last.desired.xy = rgb_to_xy(<<255, 255, 255>>)
        /\ last.desired.hue = 0
        /\ last.desired.sat = 0
        /\ last.desired.bri = BRI_MAX
        /\ hasattr(last.desired, "scene") => last.desired.scene = None
        /\ \A k \in DOMAIN last.before \ (ResetKeys \cup {"on"}) :
              last.desired[k] = last.before[k]
        /\ IF last.return_status = "NotCalled"
           THEN /\ kind = "light"
                /\ ~last.before.is_reachable
                /\ last.requests = <<>>
                /\ last.desired.on = last.before.on
           ELSE last.desired.on = TRUE
        /\ DOMAIN last.states # {} =>
              /\ last.states.on = TRUE
              /\ "transitiontime" \notin DOMAIN last.states
        /\ last.formed.bri = BRI_MAX
        /\ last.formed._bri = last.before._bri

(* A reset that turns the resource on with a transition time and a stash pending. *)
C28_Witness ==
    /\ last.op = "reset"
    /\ last.before.transitiontime # None
    /\ last.before._bri # None
    /\ last.snapshot[_attr_key(kind)].on = FALSE
    /\ "PUT state" \in Range(last.requests)
    /\ "bri" \in DOMAIN last.states

(* After a commit on a group the scene is unset; it was sent if it was pending. *)
SceneCleared ==
    (last.op = "set" /\ kind = "group") =>
        /\ self.scene = None
        /\ last.formed.scene = None
        /\ last.desired.scene = last.before.scene
        /\ IF last.before.scene # None
           THEN /\ "scene" \in DOMAIN last.attrs
                /\ last.attrs.scene = last.before.scene[1]
                /\ last.requests[1] = "PUT attributes"
           ELSE "scene" \notin DOMAIN last.attrs

(* A commit that carries a scene found it pending and does not follow a commit. *)
SceneNotQueuedAgain ==
    (last'.op = "set" /\ kind = "group" /\ "scene" \in DOMAIN last'.attrs) =>
        /\ self.scene # None
        /\ last.op # "set"
        /\ self'.scene = None

(***************************************************************************)
(* C29: a scene pending on a group goes into the attribute payload of the  *)
(* next commit and is cleared as the payload is formed: after every commit *)
(* on a group the scene is unset, whatever the attribute request is        *)
(* answered, and a commit that directly follows a commit carries no scene. *)
(***************************************************************************)
C29_SceneQueuedOnce == []SceneCleared /\ [][SceneNotQueuedAgain]_vars

(* A scene sent in a request that the device answers with an error. *)
C29_Witness ==
    /\ last.op = "set"
    /\ kind = "group"
    /\ "scene" \in DOMAIN last.attrs
    /\ last.responses # <<>>
    /\ last.responses[1] = "error"
    /\ self.scene = None

(* After a commit that formed the state payload the transition time is whole. *)
TimeWhole ==
    (last.op = "set" /\ last.return_status \in {"True", "False"}
        /\ self.transitiontime # None) =>
        self.transitiontime[1] % TT_ONE = 0

(* A step changes the transition time only by an assignment or by rounding it. *)
TimeKept ==
    self'.transitiontime # self.transitiontime =>
        \/ last' = NoCommit /\ writes' = writes + 1
        \/ /\ last'.op = "set"
           /\ self.transitiontime # None
           /\ self'.transitiontime = <<round_time(self.transitiontime[1])>>

(***************************************************************************)
(* C31: a transition time the caller set survives commits and refreshes.   *)
(* turn_on, turn_off, set and refresh leave it as it is or round it to a   *)
(* whole number; only an assignment by the caller changes it otherwise.    *)
(***************************************************************************)
C31_TransitionTimeSurvives == []TimeWhole /\ [][TimeKept]_vars

(* turn_on after a turn_off that rounded 10.4 to 10: the time is still 10. *)
C31_Witness ==
    /\ last.op = "set"
    /\ last.parameter = "on"
    /\ last.desired.on
    /\ last.before.transitiontime = <<100>>
    /\ last.dirty = 0
    /\ ~last.snapshot[_attr_key(kind)].on
    /\ "transitiontime" \in DOMAIN last.states
    /\ self.transitiontime = <<100>>

(***************************************************************************)
(* C32: a delete called with a name or id that matches no cached resource  *)
(* is a no-op: it returns False, sends no DELETE and raises nothing.  Here *)
(* for delete_rule and delete_schedule.                                    *)
(***************************************************************************)
C32_DeleteWithoutMatchIsNoOp ==
    (rlast.op \in {"delete_rule", "delete_schedule"} /\ rlast.found = None) =>
        /\ rlast.status = "False"
        /\ rlast.raised = ""
        /\ \A i \in 1..Len(rlast.requests) : rlast.requests[i].mode # "DELETE"

(* A key of the state payload that commit sent lies between lo and hi. *)
SentWithin(k, lo, hi) ==
    k \in DOMAIN last.states => (last.states[k] >= lo /\ last.states[k] <= hi)

(***************************************************************************)
(* C33: in every state payload that a commit transmits, ct lies in         *)
(* [153, 500], hue in [0, 65535], sat and bri in [0, 254] and each         *)
(* component of xy in [0, 1], whatever the caller wrote.                   *)
(***************************************************************************)
C33_PayloadWithinRanges ==
    (last.op = "set" /\ "PUT state" \in Range(last.requests)) =>
        /\ SentWithin("ct", MIREDS_MIN, MIREDS_MAX)
        /\ SentWithin("hue", 0, HUE_MAX)
        /\ SentWithin("sat", 0, SAT_MAX)
        /\ SentWithin("bri", 0, BRI_MAX)
        /\ "xy" \in DOMAIN last.states =>
              \A i \in 1..2 : last.states.xy[i] >= 0 /\ last.states.xy[i] <= FLOAT_ONE

(* The number of times x is in the list, and equality of lists as multisets. *)
Count(list, x) == Cardinality({i \in 1..Len(list) : list[i] = x})

SameMembers(a, b) == \A x \in Range(a) \cup Range(b) : Count(a, x) = Count(b, x)

(***************************************************************************)
(* C34: the attribute payload of a commit carries name exactly when the    *)
(* local name differs from the name in the snapshot and, for a group,      *)
(* lights exactly when the local list of members differs from the          *)
(* snapshot's list of ids as a multiset; then it carries the local list.   *)
(* For a light it never carries lights.                                    *)
(***************************************************************************)
C34_AttributePayloadIsTheDifference ==
    (last.op = "set" /\ last.return_status # "NotCalled") =>
        /\ ("name" \in DOMAIN last.attrs) <=> (last.desired.name # last.snapshot.name)
        /\ "name" \in DOMAIN last.attrs => last.attrs.name = last.desired.name
        /\ ("lights" \in DOMAIN last.attrs)
              <=> (/\ kind = "group"
                   /\ ~SameMembers(last.desired.lights, last.snapshot.lights))
        /\ "lights" \in DOMAIN last.attrs => last.attrs.lights = last.desired.lights

(* A member listed twice is sent; a member list in another order is not. *)
C34_Witness ==
    /\ last.op = "set"
    /\ kind = "group"
    /\ last.desired.lights = <<1, 1>>
    /\ last.snapshot.lights = <<1>>
    /\ last.attrs.lights = <<1, 1>>

(* set() directly after a commit that reported success sends no PUT. *)
SecondSetSendsNothing ==
    (/\ last.op = "set"
     /\ last.return_status = "True"
     /\ last'.op = "set"
     /\ last'.parameter = "") =>
        /\ "PUT attributes" \notin Range(last'.requests)
        /\ "PUT state" \notin Range(last'.requests)

(***************************************************************************)
(* C37: against a device that applies every payload as sent and reports    *)
(* success, a commit is idempotent: a set() that follows a commit with no  *)
(* local change in between transmits no PUT.                               *)
(***************************************************************************)
C37_CommitIsIdempotent == [][SecondSetSendsNothing]_vars

(* A commit on a light for which the caller set rgb and a brightness of its own. *)
CallerSetBoth ==
    /\ last.op = "set"
    /\ kind = "light"
    /\ last.return_status \in {"True", "False"}
    /\ last.desired.rgb # None
    /\ last.desired.bri # StateObj.bri

(* The brightness workaround does not act in the commit. *)
NoWorkaround == StateObj.on = last.formed.on \/ last.formed.transitiontime = None

C40_StashKeptWhenStateUnsent ==
    (/\ last.op = "set"
     /\ "PUT attributes" \in Range(last.requests)
     /\ last.responses = <<"error">>
     /\ DOMAIN last.states # {}) =>
        /\ "PUT state" \notin Range(last.requests)
        /\ self._bri = last.before._bri

(***************************************************************************)
(* C35: a commit restores the brightness from the stash only when no       *)
(* commit that changed on was transmitted since the turn-off that stashed  *)
(* it: the stash is restored by the first power-on after that turn-off.    *)
(***************************************************************************)
C35_StashRestoredByFirstPowerOn == stash.restored_after <= 0

(* No two objects of the list have the same index. *)
DistinctIds(pool) ==
    \A i, j \in 1..Len(pool) : pool[i].index = pool[j].index => i = j

(***************************************************************************)
(* C36: after any sequence of refreshes, lookups, creations and deletions  *)
(* no two entries of a cached list of resources have the same id.  Here    *)
(* for Bridge.lights and Bridge.groups; the lists of rules, schedules and  *)
(* sensors are filled by the same loop.                                    *)
(***************************************************************************)
C36_NoDuplicateIds == DistinctIds(bridge.lights) /\ DistinctIds(bridge.groups)

(* create_group gets an id back that a cached Group, deleted before, has. *)
C36_Witness ==
    /\ outcome.op = "create_group"
    /\ outcome.result # None
    /\ \E i \in 1..Len(outcome.before.groups) :
          outcome.before.groups[i].index = outcome.result[1]
    /\ Len(bridge.groups) = Len(outcome.before.groups)
    /\ bridge.groups # <<>>

(***************************************************************************)
(* C38: a lookup of lights or groups, or a refresh of the groups, leaves   *)
(* the uncommitted writes to every cached Light as they are: a Light whose *)
(* name the caller has changed, so that it differs from the device's,      *)
(* still has that name afterwards.                                         *)
(***************************************************************************)
C38_LookupKeepsLocalWrites ==
    outcome.op \in {"get_light", "get_lights", "get_group", "get_groups",
                    "refresh_groups"} =>
        \A i \in 1..Len(outcome.before.lights) :
            (/\ outcome.before.lights[i].index \in DOMAIN hub.lights
             /\ outcome.before.lights[i].name
                    # hub.lights[outcome.before.lights[i].index]) =>
                bridge.lights[i].name = outcome.before.lights[i].name
====
